---- MODULE Spec2Model ----
(***************************************************************************)
(* Model of robomesh's Trigger Scheduler (TriggerManager) and Graph        *)
(* Executor (the POST / handler of createExecuteRouter).                   *)
(*                                                                         *)
(* Time is counted in whole minutes: clock, nextRun, lastRun and idleSince *)
(* are minute counts, so getIdleDuration() / (60 * 1000) is the idle       *)
(* duration itself.  Strings that the code concatenates or tests for a     *)
(* prefix are tuples of one-character strings.  JavaScript objects are     *)
(* cells of a heap addressed by references, so that two holders of one     *)
(* trigger object see each other's writes and a holder of a replaced       *)
(* object does not write to the registry.                                  *)
(***************************************************************************)
EXTENDS Integers, Sequences, FiniteSets, TLC

\* ------------------------------------------------------------------ bounds
MaxEdges == 3       \* edges of a request
MaxTime == 1        \* the clock is advanced up to this minute
MaxCycles == 2      \* check cycles of the timer loop that can be in flight at once
MaxIdleTime == 11   \* the mock clock is advanced up to this minute in the idle scenarios

\* ---------------------------------------------------------------- encoding
None == -1          \* an undefined Date / number
NoRef == 0          \* null / undefined object reference
NoCallback == "none"


\* ------------------------------------------------------------- sequences
Range(s) == {s[i] : i \in 1 .. Len(s)}

RECURSIVE SelectSeqBy(_, _)
\* Array.prototype.filter with the predicate given as the set of kept values
SelectSeqBy(s, keep) ==
    IF s = <<>> THEN <<>>
    ELSE IF Head(s) \in keep THEN <<Head(s)>> \o SelectSeqBy(Tail(s), keep)
    ELSE SelectSeqBy(Tail(s), keep)

\* String.prototype.startsWith
StartsWith(s, prefix) ==
    /\ Len(prefix) <= Len(s)
    /\ \A i \in 1 .. Len(prefix) : s[i] = prefix[i]

\* the template string `${workspace}:${workflowPath}:${nodeId}`
GetTriggerKey(workspace, workflowPath, nodeId) ==
    workspace \o <<":">> \o workflowPath \o <<":">> \o nodeId

\* the template string `${workspace}:${workflowPath}:`
WorkflowPrefix(workspace, workflowPath) ==
    workspace \o <<":">> \o workflowPath \o <<":">>

\* ------------------------------------------------------------------- cron
\* The cron expressions of the model: "*/1" and "*/2" fire at every minute
\* and at every even minute; every other string does not parse.
CronPeriod(cronExpr) ==
    CASE cronExpr = "*/1" -> 1
      [] cronExpr = "*/2" -> 2
      [] OTHER -> 0

\* CronExpressionParser.parse(expr, {currentDate}).next(): the first
\* occurrence strictly after currentDate
\* a next() that returns the current minute when it is an occurrence
NextOccurrenceFromNow(period, from) == ((from + period - 1) \div period) * period

NextOccurrence(period, from) == ((from \div period) + 1) * period

\* a getNextRunTime that answers the current date for an expression that
\* does not parse
GetNextRunTimeOrNow(cronExpr, now) ==
    IF CronPeriod(cronExpr) = 0
    THEN [threw |-> FALSE, val |-> now]
    ELSE [threw |-> FALSE, val |-> NextOccurrence(CronPeriod(cronExpr), now)]

\* getNextRunTime(cronExpr) with from = clock.now(): the date, or a throw
GetNextRunTime(cronExpr, now) ==
    IF CronPeriod(cronExpr) = 0
    THEN [threw |-> TRUE, val |-> None]
    ELSE [threw |-> FALSE, val |-> NextOccurrence(CronPeriod(cronExpr), now)]

CronConfig(expr) == [type |-> "cron", cron |-> expr, idleMinutes |-> None]
IdleConfig(m) == [type |-> "idle", cron |-> "", idleMinutes |-> m]

\* ------------------------------------------------------------------ state
VARIABLES
    clock,          \* Clock.now(), in minutes
    triggers,       \* this.triggers: the Map, as its entries in insertion order
    heap,           \* the RegisteredTrigger objects that are still referenced
    idleSince,      \* this.idleSince
    onTriggerFire,  \* this.onTriggerFire
    checkInterval,  \* this.checkInterval: the handle of the timer, or NoRef
    timers,         \* the interval timers of the runtime that are not cleared
    triggersFile,   \* this.triggersFile
    disk,           \* the content of the triggers file
    cycles,         \* the checkAndFire calls in flight, with their locals
    returned,       \* the locals of a checkAndFire call that returned in the last step
    firedAt,        \* per key: when markFired last ran on its registry record
    last,           \* the last call a caller made, and what it returned
    request,        \* req.body of a POST to the execute route
    run             \* the locals of the route handler, and its response

\* the TriggerManager and its history
manager == <<clock, triggers, heap, idleSince, onTriggerFire, checkInterval,
             timers, triggersFile, disk, cycles, returned, firedAt>>

\* the execute route
executor == <<request, run>>

vars == <<manager, last, executor>>

\* ------------------------------------------------------------- the inputs
WsA == <<"a">>
WsAB == <<"a", ":", "b">>
PathB == <<"b">>
PathBC == <<"b", ":", "c">>
PathC == <<"c">>
NodeN == <<"n">>
NodeM == <<"m">>
NodeP == <<"p">>

\* (workspace, workflowPath, nodeId) of the calls.  (a, b:c, n) and
\* (a:b, c, n) are different workflows with the key a:b:c:n, which also
\* starts with the prefix a:b: of workflow (a, b).
Triples == {<<WsA, PathB, NodeN>>, <<WsA, PathB, NodeM>>, <<WsA, PathB, NodeP>>,
            <<WsA, PathBC, NodeN>>, <<WsAB, PathC, NodeN>>}
Workflows == {<<t[1], t[2]>> : t \in Triples}
Keys == {GetTriggerKey(t[1], t[2], t[3]) : t \in Triples}
KeySeq == <<GetTriggerKey(WsA, PathB, NodeN), GetTriggerKey(WsA, PathB, NodeM),
            GetTriggerKey(WsA, PathBC, NodeN), GetTriggerKey(WsA, PathB, NodeP)>>
Labels == {"L1", "L2"}
Configs == {CronConfig("*/1"), CronConfig("*/2"), CronConfig("bad"),
            IdleConfig(0), IdleConfig(1)}
Callbacks == {"f", "g"}
File == "triggers.json"
NoFile == "null"
NoCall == [op |-> "none", args |-> <<>>, ret |-> None]

\* ------------------------------------------------------- the Map and heap
MapKeys(m) == {m[i].id : i \in 1 .. Len(m)}
MapRefs(m) == {m[i].ref : i \in 1 .. Len(m)}

\* Map.prototype.get
MapGet(m, id) ==
    IF id \in MapKeys(m)
    THEN (CHOOSE e \in Range(m) : e.id = id).ref
    ELSE NoRef

\* Map.prototype.set: an existing key keeps its position
MapSet(m, id, ref) ==
    IF id \in MapKeys(m)
    THEN [i \in 1 .. Len(m) |-> IF m[i].id = id THEN [id |-> id, ref |-> ref] ELSE m[i]]
    ELSE Append(m, [id |-> id, ref |-> ref])

\* Map.prototype.delete
MapDelete(m, id) == SelectSeqBy(m, {e \in Range(m) : e.id # id})

\* A checkAndFire call in flight: pc is the await it is suspended at
\* ("cron": the callback of due[i], "idle": the callback of sel, "mkdir"
\* and "write": the two awaits of save), "done" once it has returned and
\* "free" when the slot holds no call.  calls, cbs, threw, cronAtStart and
\* idleAtSel are history: the triggers the callback was invoked for and
\* the callback invoked for each, those for which it threw, the enabled
\* cron triggers with nextRun <= now when the call began, and the enabled
\* idle triggers whose threshold had elapsed when the idle triggers were
\* looked up.
FreeCycle ==
    [pc |-> "free", origin |-> "none", cb |-> NoCallback, due |-> <<>>, i |-> 0, sel |-> NoRef,
     fired |-> <<>>, buf |-> <<>>, rejected |-> FALSE,
     calls |-> <<>>, cbs |-> <<>>, threw |-> {}, cronAtStart |-> {}, idleAtSel |-> {}]

\* the objects a checkAndFire call in flight refers to
CycleRefs(cy) ==
    (Range(cy.due) \cup Range(cy.fired) \cup {cy.sel} \cup Range(cy.calls)
        \cup cy.threw \cup cy.cronAtStart \cup cy.idleAtSel) \ {NoRef}

\* the objects the calls in flight hold
HeldRefs(cys) == UNION {CycleRefs(cys[c]) : c \in DOMAIN cys}

\* The reference of the object the registry holds for a key is the place
\* of the key in KeySeq.  An object that leaves the registry while a call
\* in flight holds it is from then on known by a reference above those.
KeyRef(id) == CHOOSE k \in 1 .. Len(KeySeq) : KeySeq[k] = id

\* a reference no holder has, for an object that left the registry
Alloc(h) ==
    CHOOSE r \in Len(KeySeq) + 1 .. Len(KeySeq) + Cardinality(DOMAIN h) + 1 :
        /\ r \notin DOMAIN h
        /\ \A q \in Len(KeySeq) + 1 .. r - 1 : q \in DOMAIN h

\* a call's locals with reference old replaced by new
RenameCycle(cy, old, new) ==
    LET to(r) == IF r = old THEN new ELSE r
    IN [cy EXCEPT !.due = [k \in 1 .. Len(@) |-> to(@[k])],
                  !.fired = [k \in 1 .. Len(@) |-> to(@[k])],
                  !.calls = [k \in 1 .. Len(@) |-> to(@[k])],
                  !.sel = to(@),
                  !.threw = {to(r) : r \in @},
                  !.cronAtStart = {to(r) : r \in @},
                  !.idleAtSel = {to(r) : r \in @}]

\* The registry lets go of the object of key id (the key is deleted or set
\* to a new object): the calls in flight that hold it keep the object.
Detach(st, id) ==
    LET old == KeyRef(id)
        new == Alloc(st.h)
    IN IF old \in DOMAIN st.h /\ old \in HeldRefs(st.cys)
       THEN [h |-> [r \in (DOMAIN st.h \ {old}) \cup {new} |->
                       IF r = new THEN st.h[old] ELSE st.h[r]],
             cys |-> [c \in DOMAIN st.cys |-> RenameCycle(st.cys[c], old, new)]]
       ELSE [h |-> [r \in DOMAIN st.h \ {old} |-> st.h[r]], cys |-> st.cys]

RECURSIVE DetachAll(_, _)
DetachAll(st, ids) ==
    IF ids = <<>> THEN st ELSE DetachAll(Detach(st, Head(ids)), Tail(ids))

\* objects no holder refers to are dropped
Collect(h, m, cys, r) ==
    [x \in (MapRefs(m) \cup HeldRefs(cys) \cup CycleRefs(r)) \cap DOMAIN h |-> h[x]]

\* --------------------------------------------------------------- registry
\* register that starts every record without a lastRun
ForgottenLastRun(h, old) == None

\* this.triggers.get(id)?.lastRun
PreservedLastRun(h, old) == IF old = NoRef THEN None ELSE h[old].lastRun

\* register(workspace, workflowPath, nodeId, label, config)
\* a register that keeps the enabled flag of the record it replaces
KeptEnabled(h, old) == IF old = NoRef THEN TRUE ELSE h[old].enabled

\* enabled: true, of the record register builds
EnabledAtRegister(h, old) == TRUE

Register(workspace, workflowPath, nodeId, label, config) ==
    LET id == GetTriggerKey(workspace, workflowPath, nodeId)
        next == IF config.type = "cron" /\ config.cron # ""
                THEN GetNextRunTime(config.cron, clock)
                ELSE [threw |-> FALSE, val |-> None]
        old == MapGet(triggers, id)
        trigger == [id |-> id,
                    workspace |-> workspace,
                    workflowPath |-> workflowPath,
                    nodeId |-> nodeId,
                    label |-> label,
                    config |-> config,
                    enabled |-> EnabledAtRegister(heap, old),
                    nextRun |-> IF next.threw THEN None ELSE next.val,
                    lastRun |-> PreservedLastRun(heap, old)]
        let == Detach([h |-> heap, cys |-> cycles], id)
        ref == KeyRef(id)
        m == MapSet(triggers, id, ref)
    IN /\ triggers' = m
       /\ cycles' = let.cys
       /\ heap' = Collect([r \in DOMAIN let.h \cup {ref} |->
                              IF r = ref THEN trigger ELSE let.h[r]],
                          m, let.cys, FreeCycle)
       /\ returned' = FreeCycle
       /\ UNCHANGED <<clock, idleSince, onTriggerFire, checkInterval, timers,
                      triggersFile, disk, firedAt>>

\* what unregister(workspace, workflowPath, nodeId) returns
UnregisterReturn(workspace, workflowPath, nodeId) ==
    GetTriggerKey(workspace, workflowPath, nodeId) \in MapKeys(triggers)

\* unregister(workspace, workflowPath, nodeId)
Unregister(workspace, workflowPath, nodeId) ==
    LET id == GetTriggerKey(workspace, workflowPath, nodeId)
        m == MapDelete(triggers, id)
        let == Detach([h |-> heap, cys |-> cycles], id)
    IN /\ triggers' = m
       /\ cycles' = let.cys
       /\ heap' = Collect(let.h, m, let.cys, FreeCycle)
       /\ returned' = FreeCycle
       /\ firedAt' = [firedAt EXCEPT ![id] = None]
       /\ UNCHANGED <<clock, idleSince, onTriggerFire, checkInterval, timers,
                      triggersFile, disk>>

RECURSIVE UnregisterLoopByIndex(_, _, _)
\* the loop over an array of the entries, by an index that moves on after
\* a deletion too: the entry that followed the deleted one is skipped
UnregisterLoopByIndex(st, i, prefix) ==
    IF i > Len(st.m) THEN st
    ELSE IF StartsWith(st.m[i].id, prefix)
         THEN UnregisterLoopByIndex([m |-> MapDelete(st.m, st.m[i].id),
                                     count |-> st.count + 1], i + 1, prefix)
         ELSE UnregisterLoopByIndex(st, i + 1, prefix)

RECURSIVE UnregisterLoop(_, _, _)
\* the loop of unregisterWorkflow over this.triggers.keys(): the entries
\* from position i on are visited in order; a deleted entry leaves the Map
\* and its iterator moves on to the entry that followed it
UnregisterLoop(st, i, prefix) ==
    IF i > Len(st.m) THEN st
    ELSE IF StartsWith(st.m[i].id, prefix)
         THEN UnregisterLoop([m |-> MapDelete(st.m, st.m[i].id),
                              count |-> st.count + 1], i, prefix)
         ELSE UnregisterLoop(st, i + 1, prefix)

\* what unregisterWorkflow(workspace, workflowPath) returns: count
UnregisterWorkflowReturn(workspace, workflowPath) ==
    UnregisterLoop([m |-> triggers, count |-> 0], 1,
                   WorkflowPrefix(workspace, workflowPath)).count

\* unregisterWorkflow(workspace, workflowPath)
UnregisterWorkflow(workspace, workflowPath) ==
    LET prefix == WorkflowPrefix(workspace, workflowPath)
        out == UnregisterLoop([m |-> triggers, count |-> 0], 1, prefix)
        gone == SelectSeqBy([k \in 1 .. Len(triggers) |-> triggers[k].id],
                            MapKeys(triggers) \ MapKeys(out.m))
        let == DetachAll([h |-> heap, cys |-> cycles], gone)
    IN /\ triggers' = out.m
       /\ cycles' = let.cys
       /\ heap' = Collect(let.h, out.m, let.cys, FreeCycle)
       /\ returned' = FreeCycle
       /\ firedAt' = [k \in DOMAIN firedAt |->
                         IF k \in MapKeys(triggers) \ MapKeys(out.m)
                         THEN None ELSE firedAt[k]]
       /\ UNCHANGED <<clock, idleSince, onTriggerFire, checkInterval, timers,
                      triggersFile, disk>>

\* a setEnabled that reports success for every key
SetEnabledReturnsTrue(workspace, workflowPath, nodeId) == TRUE

\* what setEnabled(workspace, workflowPath, nodeId, enabled) returns
SetEnabledReturn(workspace, workflowPath, nodeId) ==
    MapGet(triggers, GetTriggerKey(workspace, workflowPath, nodeId)) # NoRef

\* setEnabled(workspace, workflowPath, nodeId, enabled)
SetEnabled(workspace, workflowPath, nodeId, enabled) ==
    LET trigger == MapGet(triggers, GetTriggerKey(workspace, workflowPath, nodeId))
    IN /\ IF trigger = NoRef
          THEN heap' = Collect(heap, triggers, cycles, FreeCycle)
          ELSE heap' = Collect([heap EXCEPT ![trigger].enabled = enabled],
                               triggers, cycles, FreeCycle)
       /\ returned' = FreeCycle
       /\ UNCHANGED <<clock, triggers, idleSince, onTriggerFire, checkInterval,
                      timers, triggersFile, disk, cycles, firedAt>>

\* a markFired that moves nextRun on by one occurrence
MarkFiredNextOccurrence(h, trigger, now) ==
    LET cfg == h[trigger].config
    IN [h EXCEPT ![trigger].lastRun = now,
                 ![trigger].nextRun =
                     IF cfg.type = "cron" /\ cfg.cron # "" /\ @ # None
                     THEN @ + CronPeriod(cfg.cron)
                     ELSE @]

\* markFired(trigger) on the heap: the object after the call
MarkFired(h, trigger, now) ==
    LET cfg == h[trigger].config
        next == GetNextRunTime(cfg.cron, now)
    IN [h EXCEPT ![trigger].lastRun = now,
                 ![trigger].nextRun =
                     IF cfg.type = "cron" /\ cfg.cron # ""
                     THEN (IF next.threw THEN None ELSE next.val)
                     ELSE @]

\* the history of markFired: a call on the object the registry holds for
\* its key is noted under that key
NoteFired(f, m, h, trigger, now) ==
    IF MapGet(m, h[trigger].id) = trigger
    THEN [f EXCEPT ![h[trigger].id] = now]
    ELSE f

\* a caller's markFired(get(workspace, workflowPath, nodeId))
MarkFiredCall(workspace, workflowPath, nodeId) ==
    LET trigger == MapGet(triggers, GetTriggerKey(workspace, workflowPath, nodeId))
    IN /\ trigger # NoRef
       /\ heap' = Collect(MarkFired(heap, trigger, clock), triggers, cycles, FreeCycle)
       /\ firedAt' = NoteFired(firedAt, triggers, heap, trigger, clock)
       /\ returned' = FreeCycle
       /\ UNCHANGED <<clock, triggers, idleSince, onTriggerFire, checkInterval,
                      timers, triggersFile, disk, cycles>>

\* clear()
Clear ==
    LET let == DetachAll([h |-> heap, cys |-> cycles],
                         [k \in 1 .. Len(triggers) |-> triggers[k].id])
    IN /\ triggers' = <<>>
       /\ cycles' = let.cys
       /\ heap' = Collect(let.h, <<>>, let.cys, FreeCycle)
       /\ firedAt' = [k \in DOMAIN firedAt |-> None]
       /\ returned' = FreeCycle
       /\ UNCHANGED <<clock, idleSince, onTriggerFire, checkInterval, timers,
                      triggersFile, disk>>

\* getAll(): Array.from(this.triggers.values())
GetAll(m) == [i \in 1 .. Len(m) |-> m[i].ref]

\* the filter with nextRun < now
IsDueCronStrictly(trigger, now) ==
    /\ trigger.enabled
    /\ trigger.config.type = "cron"
    /\ trigger.nextRun # None
    /\ trigger.nextRun < now

\* the filter of getDueTriggers
IsDueCron(trigger, now) ==
    /\ trigger.enabled
    /\ trigger.config.type = "cron"
    /\ trigger.nextRun # None
    /\ trigger.nextRun <= now

\* a getDueTriggers whose filter does not look at trigger.enabled
GetDueTriggersWithDisabled(m, h, now) ==
    SelectSeqBy(GetAll(m), {r \in MapRefs(m) : /\ h[r].config.type = "cron"
                                               /\ h[r].nextRun # None
                                               /\ h[r].nextRun <= now})

\* getDueTriggers()
GetDueTriggers(m, h, now) ==
    SelectSeqBy(GetAll(m), {r \in MapRefs(m) : IsDueCron(h[r], now)})

\* ------------------------------------------------------------ idle tracker
\* a setIdle that records the time of every setIdle(true)
SetIdleRestarts(isIdle) ==
    /\ idleSince' = IF isIdle THEN clock ELSE None
    /\ returned' = FreeCycle
    /\ heap' = Collect(heap, triggers, cycles, FreeCycle)
    /\ UNCHANGED <<clock, triggers, onTriggerFire, checkInterval, timers,
                   triggersFile, disk, cycles, firedAt>>

\* a setIdle(false) that keeps the time idle began
SetIdleKeepsIdleTime(isIdle) ==
    /\ idleSince' = IF isIdle /\ idleSince = None THEN clock ELSE idleSince
    /\ returned' = FreeCycle
    /\ heap' = Collect(heap, triggers, cycles, FreeCycle)
    /\ UNCHANGED <<clock, triggers, onTriggerFire, checkInterval, timers,
                   triggersFile, disk, cycles, firedAt>>

\* setIdle(isIdle)
SetIdle(isIdle) ==
    /\ idleSince' = IF isIdle /\ idleSince = None THEN clock
                    ELSE IF ~isIdle /\ idleSince # None THEN None
                    ELSE idleSince
    /\ returned' = FreeCycle
    /\ heap' = Collect(heap, triggers, cycles, FreeCycle)
    /\ UNCHANGED <<clock, triggers, onTriggerFire, checkInterval, timers,
                   triggersFile, disk, cycles, firedAt>>

\* getIdleDuration()
GetIdleDuration(since, now) == IF since = None THEN 0 ELSE now - since

\* the filter with idleMinutes > requiredMinutes
IsDueIdlePastThreshold(trigger, idleMinutes) ==
    /\ trigger.enabled
    /\ trigger.config.type = "idle"
    /\ LET requiredMinutes == IF trigger.config.idleMinutes = None THEN 0
                              ELSE trigger.config.idleMinutes
       IN idleMinutes > requiredMinutes

\* the filter of getDueIdleTriggers
IsDueIdle(trigger, idleMinutes) ==
    /\ trigger.enabled
    /\ trigger.config.type = "idle"
    /\ LET requiredMinutes == IF trigger.config.idleMinutes = None THEN 0
                              ELSE trigger.config.idleMinutes
       IN idleMinutes >= requiredMinutes

\* a getDueIdleTriggers without the test of idleSince
GetDueIdleTriggersWhenBusy(m, h, since, now) ==
    SelectSeqBy(GetAll(m),
                {r \in MapRefs(m) : IsDueIdle(h[r], GetIdleDuration(since, now))})

\* getDueIdleTriggers()
GetDueIdleTriggers(m, h, since, now) ==
    IF since = None THEN <<>>
    ELSE SelectSeqBy(GetAll(m),
                     {r \in MapRefs(m) : IsDueIdle(h[r], GetIdleDuration(since, now))})

\* onFire(callback)
OnFire(callback) ==
    /\ onTriggerFire' = callback
    /\ returned' = FreeCycle
    /\ heap' = Collect(heap, triggers, cycles, FreeCycle)
    /\ UNCHANGED <<clock, triggers, idleSince, checkInterval, timers,
                   triggersFile, disk, cycles, firedAt>>

\* the injected clock moves on
Tick ==
    /\ clock < MaxTime
    /\ clock' = clock + 1
    /\ returned' = FreeCycle
    /\ heap' = Collect(heap, triggers, cycles, FreeCycle)
    /\ UNCHANGED <<triggers, idleSince, onTriggerFire, checkInterval,
                   timers, triggersFile, disk, cycles, firedAt>>

\* clock.advance(ms) of the mock clock, in minutes
Advance(minutes) ==
    /\ clock + minutes <= MaxIdleTime
    /\ clock' = clock + minutes
    /\ returned' = FreeCycle
    /\ heap' = Collect(heap, triggers, cycles, FreeCycle)
    /\ UNCHANGED <<triggers, idleSince, onTriggerFire, checkInterval,
                   timers, triggersFile, disk, cycles, firedAt>>

\* ------------------------------------------------------------ persistence
\* Date.prototype.toISOString as JSON text, and the dropped undefined field
ToISOString(t) == <<"iso", t>>
Absent == <<>>

\* new Date(text) of load
ParseDate(text) == text[2]

\* JSON.stringify of one RegisteredTrigger
TriggerToJSON(t) ==
    [t EXCEPT !.nextRun = IF @ = None THEN Absent ELSE ToISOString(@),
              !.lastRun = IF @ = None THEN Absent ELSE ToISOString(@)]

\* the text save() writes: JSON.stringify of
\* {triggers: Object.fromEntries(this.triggers), lastUpdated}
Serialize(m, h, now) ==
    [triggers |-> [i \in 1 .. Len(m) |->
                      [id |-> m[i].id, trigger |-> TriggerToJSON(h[m[i].ref])]],
     lastUpdated |-> ToISOString(now)]

\* a load that restores nextRun and leaves lastRun out
LoadTriggerWithoutLastRun(json) ==
    [json EXCEPT !.nextRun = IF @ # Absent THEN ParseDate(@) ELSE None,
                 !.lastRun = None]

\* the object load() builds of one entry of state.triggers
LoadTrigger(json) ==
    [json EXCEPT !.nextRun = IF @ # Absent THEN ParseDate(@) ELSE None,
                 !.lastRun = IF @ # Absent THEN ParseDate(@) ELSE None]

\* ------------------------------------------------------------- checkAndFire
InFlight(cy) == cy.pc # "free"

\* enabled Cron triggers whose nextRun <= now
ClaimDueCron(m, h, now) ==
    {r \in MapRefs(m) : /\ h[r].enabled
                        /\ h[r].config.type = "cron"
                        /\ h[r].nextRun # None
                        /\ h[r].nextRun <= now}

\* enabled Idle triggers whose threshold is <= the elapsed idle minutes
ClaimDueIdle(m, h, since, now) ==
    IF since = None THEN {}
    ELSE {r \in MapRefs(m) :
             /\ h[r].enabled
             /\ h[r].config.type = "idle"
             /\ (IF h[r].config.idleMinutes = None THEN 0
                 ELSE h[r].config.idleMinutes) <= now - since}

\* an index drawn from 0 .. length: triggers[length] is undefined
SelectRandomPastEnd(trigs) ==
    {NoRef} \cup {trigs[k] : k \in 1 .. Len(trigs)}

\* selectRandom(triggers): every index Math.random() can give
SelectRandom(trigs) ==
    IF Len(trigs) = 0 THEN {NoRef} ELSE {trigs[k] : k \in 1 .. Len(trigs)}

\* markFired(trigger); firedTriggers.push(trigger)
Fire(st, trigger) ==
    [h |-> MarkFired(st.h, trigger, clock),
     f |-> NoteFired(st.f, triggers, st.h, trigger, clock),
     cy |-> [st.cy EXCEPT !.fired = Append(@, trigger)]]

\* a checkAndFire that saves after every cycle
RunSaveAlways(st) ==
    IF triggersFile # NoFile
    THEN {[st EXCEPT !.cy.pc = "mkdir"]}
    ELSE {[st EXCEPT !.cy.pc = "done"]}

\* checkAndFire from "Save state after firing" to its return or to the
\* first await of save()
RunSave(st) ==
    IF Len(st.cy.fired) > 0 /\ triggersFile # NoFile
    THEN {[st EXCEPT !.cy.pc = "mkdir"]}
    ELSE {[st EXCEPT !.cy.pc = "done"]}

\* a callback's error that leaves checkAndFire
CatchFiringRethrows(st, trigger) == [st EXCEPT !.cy.rejected = TRUE]

\* a catch block that marks the trigger fired all the same
CatchFiringMarksFired(st, trigger) ==
    [Fire(st, trigger) EXCEPT !.cy.rejected = FALSE]

\* the catch blocks around the callback: the error is logged, the call
\* goes on (rejected tells whether the error leaves checkAndFire)
CatchFiring(st, trigger) == [st EXCEPT !.cy.rejected = FALSE]

\* a cycle that keeps calling the callback it found when it began
CallbackAtStart(cy) == cy.cb

\* this.onTriggerFire, read when the callback is called
Callback(cy) == onTriggerFire

\* checkAndFire from getDueIdleTriggers() on
RunIdle(st) ==
    LET dueIdleTriggers == GetDueIdleTriggers(triggers, st.h, idleSince, clock)
        seen == [st EXCEPT !.cy.idleAtSel =
                               ClaimDueIdle(triggers, st.h, idleSince, clock)]
    IN IF Len(dueIdleTriggers) > 0
       THEN UNION {
              IF selectedTrigger = NoRef THEN RunSave(seen)
              ELSE IF onTriggerFire # NoCallback
              THEN {[seen EXCEPT !.cy.pc = "idle",
                                 !.cy.sel = selectedTrigger,
                                 !.cy.calls = Append(@, selectedTrigger),
                                 !.cy.cbs = Append(@, Callback(seen.cy))]}
              ELSE RunSave(Fire([seen EXCEPT !.cy.sel = selectedTrigger],
                                selectedTrigger))
              : selectedTrigger \in SelectRandom(dueIdleTriggers)}
       ELSE RunSave(seen)

RECURSIVE RunCron(_)
\* the loop over dueCronTriggers from due[i] on, up to the next await
RunCron(st) ==
    IF st.cy.i > Len(st.cy.due) THEN RunIdle(st)
    ELSE IF onTriggerFire # NoCallback
    THEN {[st EXCEPT !.cy.pc = "cron",
                     !.cy.calls = Append(@, st.cy.due[st.cy.i]),
                     !.cy.cbs = Append(@, Callback(st.cy))]}
    ELSE RunCron([Fire(st, st.cy.due[st.cy.i]) EXCEPT !.cy.i = @ + 1])

\* a checkAndFire that goes busy when it has fired an idle trigger
ResumeGoesBusy(c, out) ==
    LET cys == [cycles EXCEPT ![c] = IF out.cy.pc = "done" THEN FreeCycle ELSE out.cy]
        r == IF out.cy.pc = "done" THEN out.cy ELSE FreeCycle
    IN
    /\ cycles' = cys
    /\ heap' = Collect(out.h, triggers, cys, r)
    /\ firedAt' = out.f
    /\ returned' = r
    /\ idleSince' = IF \E k \in DOMAIN out.cy.fired :
                          out.h[out.cy.fired[k]].config.type = "idle"
                    THEN None ELSE idleSince
    /\ UNCHANGED <<clock, triggers, onTriggerFire, checkInterval,
                   timers, triggersFile, disk>>

\* the state a step of call c leaves
Resume(c, out) ==
    LET cys == [cycles EXCEPT ![c] = IF out.cy.pc = "done" THEN FreeCycle ELSE out.cy]
        r == IF out.cy.pc = "done" THEN out.cy ELSE FreeCycle
    IN
    /\ cycles' = cys
    /\ heap' = Collect(out.h, triggers, cys, r)
    /\ firedAt' = out.f
    /\ returned' = r
    /\ UNCHANGED <<clock, triggers, idleSince, onTriggerFire, checkInterval,
                   timers, triggersFile, disk>>

\* checkAndFire() is called: it runs to its first await
BeginCycle(c, origin) ==
    /\ cycles[c].pc = "free"
    /\ \A d \in DOMAIN cycles : d < c => cycles[d].pc # "free"
    /\ \E out \in RunCron(
              [h |-> heap, f |-> firedAt,
               cy |-> [FreeCycle EXCEPT
                          !.origin = origin,
                          !.cb = onTriggerFire,
                          !.due = GetDueTriggers(triggers, heap, clock),
                          !.i = 1,
                          !.cronAtStart = ClaimDueCron(triggers, heap, clock)]]) :
          Resume(c, out)

\* a caller's checkAndFire()
CheckAndFire == \E c \in DOMAIN cycles : BeginCycle(c, "direct")

\* the interval timer of start() comes due: its callback calls checkAndFire
TimerFire ==
    /\ timers # {}
    /\ \E c \in DOMAIN cycles : BeginCycle(c, "timer")

\* the trigger whose callback call c awaits
Awaited(cy) == IF cy.pc = "cron" THEN cy.due[cy.i] ELSE cy.sel

\* await this.onTriggerFire(trigger) resolves
CallbackReturn(c) ==
    LET cy == cycles[c]
        st == Fire([h |-> heap, f |-> firedAt, cy |-> cy], Awaited(cy))
    IN /\ cy.pc \in {"cron", "idle"}
       /\ \E out \in (IF cy.pc = "cron"
                      THEN RunCron([st EXCEPT !.cy.i = @ + 1])
                      ELSE RunSave(st)) :
             Resume(c, out)

\* await this.onTriggerFire(trigger) rejects
CallbackThrow(c) ==
    LET cy == cycles[c]
        st == CatchFiring([h |-> heap, f |-> firedAt,
                           cy |-> [cy EXCEPT !.threw = @ \cup {Awaited(cy)}]],
                          Awaited(cy))
    IN /\ cy.pc \in {"cron", "idle"}
       /\ \E out \in (IF st.cy.rejected THEN {[st EXCEPT !.cy.pc = "done"]}
                      ELSE IF cy.pc = "cron"
                      THEN RunCron([st EXCEPT !.cy.i = @ + 1])
                      ELSE RunSave(st)) :
             Resume(c, out)

\* a save() and a timer callback that catch nothing: the failure of mkdir
\* leaves the call unhandled and the loop ends with it
MkdirSettlesUncaught(c, ok) ==
    LET cy == [cycles[c] EXCEPT !.pc = IF ok THEN "write" ELSE "done",
                                !.rejected = ~ok,
                                !.buf = IF ok THEN <<Serialize(triggers, heap, clock)>>
                                        ELSE <<>>]
        cys == [cycles EXCEPT ![c] = IF ok THEN cy ELSE FreeCycle]
        r == IF ok THEN FreeCycle ELSE cy
    IN
    /\ cycles[c].pc = "mkdir"
    /\ cycles' = cys
    /\ heap' = Collect(heap, triggers, cys, r)
    /\ returned' = r
    /\ checkInterval' = IF ok THEN checkInterval ELSE NoRef
    /\ timers' = IF ok THEN timers ELSE {}
    /\ UNCHANGED <<clock, triggers, idleSince, onTriggerFire,
                   triggersFile, disk, firedAt>>

\* await fs.mkdir(...) settles: on success the state is serialised and
\* writeFile begins, on failure save() logs and returns
MkdirSettles(c, ok) ==
    /\ cycles[c].pc = "mkdir"
    /\ Resume(c, [h |-> heap, f |-> firedAt,
                  cy |-> [cycles[c] EXCEPT
                             !.pc = IF ok THEN "write" ELSE "done",
                             !.buf = IF ok THEN <<Serialize(triggers, heap, clock)>>
                                     ELSE <<>>]])

\* await fs.writeFile(...) settles
WriteSettles(c, ok) ==
    LET cy == [cycles[c] EXCEPT !.pc = "done", !.buf = <<>>]
        cys == [cycles EXCEPT ![c] = FreeCycle]
    IN
    /\ cycles[c].pc = "write"
    /\ disk' = IF ok THEN cycles[c].buf ELSE disk
    /\ cycles' = cys
    /\ heap' = Collect(heap, triggers, cys, cy)
    /\ returned' = cy
    /\ UNCHANGED <<clock, triggers, idleSince, onTriggerFire,
                   checkInterval, timers, triggersFile, firedAt>>

\* ------------------------------------------------------------------- load
RECURSIVE LoadEntries(_, _)
\* the loop of load() over Object.entries(state.triggers)
LoadEntries(st, entries) ==
    IF entries = <<>> THEN st
    ELSE LET id == Head(entries).id
             let == Detach([h |-> st.h, cys |-> st.cys], id)
             ref == KeyRef(id)
         IN LoadEntries(
                [m |-> MapSet(st.m, id, ref),
                 h |-> [r \in DOMAIN let.h \cup {ref} |->
                           IF r = ref THEN LoadTrigger(Head(entries).trigger)
                           ELSE let.h[r]],
                 cys |-> let.cys],
                Tail(entries))

\* load() is called: without a triggers file it returns, with one it
\* awaits readFile
Load ==
    \E c \in DOMAIN cycles :
        LET cy == [FreeCycle EXCEPT !.origin = "load",
                                    !.pc = IF triggersFile = NoFile THEN "done"
                                           ELSE "read"]
            cys == IF cy.pc = "done" THEN cycles ELSE [cycles EXCEPT ![c] = cy]
        IN /\ cycles[c].pc = "free"
           /\ \A d \in DOMAIN cycles : d < c => cycles[d].pc # "free"
           /\ cycles' = cys
           /\ returned' = IF cy.pc = "done" THEN cy ELSE FreeCycle
           /\ heap' = Collect(heap, triggers, cys, FreeCycle)
           /\ UNCHANGED <<clock, triggers, idleSince, onTriggerFire, checkInterval,
                          timers, triggersFile, disk, firedAt>>

\* await fs.readFile(...) settles: with the text of the file the triggers
\* are restored; a missing file (ENOENT) and any other error end the load
ReadSettles(c, ok) ==
    LET entries == IF ok /\ disk # <<>> THEN disk[1].triggers ELSE <<>>
        st == LoadEntries([m |-> triggers, h |-> heap,
                           cys |-> [cycles EXCEPT ![c] = FreeCycle]], entries)
    IN /\ cycles[c].pc = "read"
       /\ triggers' = st.m
       /\ cycles' = st.cys
       /\ heap' = Collect(st.h, st.m, st.cys, FreeCycle)
       /\ returned' = [cycles[c] EXCEPT !.pc = "done"]
       /\ UNCHANGED <<clock, idleSince, onTriggerFire, checkInterval,
                      timers, triggersFile, disk, firedAt>>

\* the process ends and a new TriggerManager is constructed on the same
\* triggers file
Restart ==
    /\ triggers' = <<>>
    /\ heap' = <<>>
    /\ idleSince' = None
    /\ onTriggerFire' = NoCallback
    /\ checkInterval' = NoRef
    /\ timers' = {}
    /\ cycles' = [c \in DOMAIN cycles |-> FreeCycle]
    /\ returned' = FreeCycle
    /\ firedAt' = [k \in Keys |-> None]
    /\ UNCHANGED <<clock, triggersFile, disk>>

\* ------------------------------------------------------------ start / stop
\* a stop() that forgets the handle without clearing the timer
StopTimerForgets(st) == [checkInterval |-> NoRef, timers |-> st.timers]

\* stop(), on the timer fields
StopTimer(st) ==
    IF st.checkInterval # NoRef
    THEN [checkInterval |-> NoRef, timers |-> st.timers \ {st.checkInterval}]
    ELSE st

\* setInterval: a handle no live timer has
SetInterval(ts) == CHOOSE id \in 1 .. Cardinality(ts) + 1 : id \notin ts

\* start(intervalMs)
Start ==
    LET stopped == IF checkInterval # NoRef
                   THEN StopTimer([checkInterval |-> checkInterval, timers |-> timers])
                   ELSE [checkInterval |-> checkInterval, timers |-> timers]
        id == SetInterval(stopped.timers)
    IN /\ checkInterval' = id
       /\ timers' = stopped.timers \cup {id}
       /\ returned' = FreeCycle
       /\ heap' = Collect(heap, triggers, cycles, FreeCycle)
       /\ UNCHANGED <<clock, triggers, idleSince, onTriggerFire,
                      triggersFile, disk, cycles, firedAt>>

\* stop()
Stop ==
    LET stopped == StopTimer([checkInterval |-> checkInterval, timers |-> timers])
    IN /\ checkInterval' = stopped.checkInterval
       /\ timers' = stopped.timers
       /\ returned' = FreeCycle
       /\ heap' = Collect(heap, triggers, cycles, FreeCycle)
       /\ UNCHANGED <<clock, triggers, idleSince, onTriggerFire,
                      triggersFile, disk, cycles, firedAt>>

\* ---------------------------------------------------------- graph executor
\* A text is a tuple of atoms: a word, a blank " ", a line break "\n", the
\* echo mark "$ " that starts the line of a command, or a template.

\* the capture of /\{\{\s*([a-zA-Z0-9_-]+)\.output\s*\}\}/ in an atom, or ""
TemplateIdentifier(atom) ==
    CASE atom = "{{a.output}}" -> "a"
      [] atom = "{{ shell_a.output }}" -> "shell_a"
      [] atom = "{{x.output}}" -> "x"
      [] atom = "{{b.output}}" -> "b"
      [] atom = "{{Shell_A.output}}" -> "Shell_A"
      [] OTHER -> ""

\* String.prototype.toLowerCase on the labels and identifiers in use
ToLowerCase(str) ==
    CASE str = "Shell A" -> "shell a"
      [] str = "A" -> "a"
      [] str = "B" -> "b"
      [] str = "Shell_A" -> "shell_a"
      [] OTHER -> str

\* label.toLowerCase().replace(/\s+/g, '_')
NormalizedLabel(label) ==
    LET lower == ToLowerCase(label)
    IN IF lower = "shell a" THEN "shell_a" ELSE lower

IsWhitespace(atom) == atom \in {" ", "\n"}

RECURSIVE TrimStart(_)
TrimStart(text) ==
    IF text # <<>> /\ IsWhitespace(Head(text)) THEN TrimStart(Tail(text)) ELSE text

RECURSIVE TrimEnd(_)
TrimEnd(text) ==
    IF text # <<>> /\ IsWhitespace(text[Len(text)])
    THEN TrimEnd(SubSeq(text, 1, Len(text) - 1))
    ELSE text

\* String.prototype.trim
Trim(text) == TrimEnd(TrimStart(text))

RECURSIVE Split(_)
\* text.split('\n')
Split(text) ==
    IF \A k \in DOMAIN text : text[k] # "\n" THEN <<text>>
    ELSE LET k == CHOOSE k \in DOMAIN text :
                      text[k] = "\n" /\ \A j \in 1 .. k - 1 : text[j] # "\n"
         IN <<SubSeq(text, 1, k - 1)>> \o Split(SubSeq(text, k + 1, Len(text)))

RECURSIVE Join(_, _)
\* texts.join(sep)
Join(texts, sep) ==
    IF texts = <<>> THEN <<>>
    ELSE IF Len(texts) = 1 THEN texts[1]
    ELSE texts[1] \o sep \o Join(Tail(texts), sep)

\* the workflow nodes of the requests
TriggerNode ==
    [id |-> "t", type |-> "trigger", nodeType |-> "", label |-> "B",
     commands |-> <<>>, prompt |-> <<>>, path |-> <<>>]
ShellA ==
    [id |-> "a", type |-> "shell", nodeType |-> "", label |-> "Shell A",
     commands |-> <<<<"run">>>>, prompt |-> <<>>, path |-> <<"{{b.output}}">>]
ShellB ==
    [id |-> "b", type |-> "custom", nodeType |-> "shell", label |-> "A",
     commands |-> <<<<"use", " ", "{{a.output}}">>, <<" ">>,
                    <<"say", " ", "{{ shell_a.output }}", "{{x.output}}">>>>,
     prompt |-> <<"{{Shell_A.output}}">>, path |-> <<>>]
\* a node whose data.nodeType, not its type, says trigger
DataTrigger ==
    [id |-> "b", type |-> "custom", nodeType |-> "trigger", label |-> "",
     commands |-> <<>>, prompt |-> <<>>, path |-> <<>>]
\* a node before ShellA whose label normalizes as the label of ShellA does
Twin ==
    [id |-> "t", type |-> "workdir", nodeType |-> "", label |-> "shell_a",
     commands |-> <<>>, prompt |-> <<>>, path |-> <<>>]
NoNode ==
    [id |-> "", type |-> "", nodeType |-> "", label |-> "",
     commands |-> <<>>, prompt |-> <<>>, path |-> <<>>]

NodeLists == {<<TriggerNode, ShellA, ShellB>>, <<ShellA, ShellB>>,
              <<TriggerNode, ShellA>>, <<ShellA, DataTrigger>>,
              <<Twin, ShellA, ShellB>>}
NodeIds == {"t", "a", "b"}
Edges == [source : NodeIds, target : NodeIds]

\* the sequences of at most n edges
EdgeLists(n) == UNION {[1 .. k -> Edges] : k \in 0 .. n}

\* startNodeId: absent, a node, or no node of the request
StartNodeIds == {"", "a", "x"}

\* buildAdjacencyMap(edges).get(nodeId) || []
BuildAdjacencyMap(edges, nodeId) ==
    LET from == SelectSeq(edges, LAMBDA e : e.source = nodeId)
    IN [k \in 1 .. Len(from) |-> from[k].target]

\* nodeMap.has(nodeId), of new Map(nodes.map(n => [n.id, n]))
NodeMapHas(nodes, nodeId) == \E k \in DOMAIN nodes : nodes[k].id = nodeId

\* nodeMap.get(nodeId): of the nodes of one id the Map keeps the last
NodeMapGet(nodes, nodeId) ==
    nodes[CHOOSE k \in DOMAIN nodes :
              /\ nodes[k].id = nodeId
              /\ \A j \in DOMAIN nodes : nodes[j].id = nodeId => j <= k]

\* context.nodeLabels, as its entries in insertion order
NodeLabels(nodes) ==
    LET first == {k \in DOMAIN nodes :
                     \A j \in 1 .. k - 1 : nodes[j].id # nodes[k].id}
        ids == SelectSeqBy([k \in DOMAIN nodes |-> k], first)
    IN [k \in 1 .. Len(ids) |->
           LET n == NodeMapGet(nodes, nodes[ids[k]].id)
           IN [id |-> n.id, label |-> IF n.label # "" THEN n.label ELSE n.id]]

RECURSIVE LabelLookupFirstMatch(_, _, _, _, _)
\* a label lookup that stops at the first node whose label matches
LabelLookupFirstMatch(nodeLabels, k, identifier, outputs, match) ==
    IF k > Len(nodeLabels) THEN <<match>>
    ELSE IF \/ NormalizedLabel(nodeLabels[k].label) = ToLowerCase(identifier)
            \/ nodeLabels[k].label = identifier
         THEN IF nodeLabels[k].id \in DOMAIN outputs
              THEN outputs[nodeLabels[k].id]
              ELSE <<match>>
         ELSE LabelLookupFirstMatch(nodeLabels, k + 1, identifier, outputs, match)

RECURSIVE LabelLookup(_, _, _, _, _)
\* the loop of replaceTemplates over context.nodeLabels from entry k on
LabelLookup(nodeLabels, k, identifier, outputs, match) ==
    IF k > Len(nodeLabels) THEN <<match>>
    ELSE IF /\ \/ NormalizedLabel(nodeLabels[k].label) = ToLowerCase(identifier)
               \/ nodeLabels[k].label = identifier
            /\ nodeLabels[k].id \in DOMAIN outputs
         THEN outputs[nodeLabels[k].id]
         ELSE LabelLookup(nodeLabels, k + 1, identifier, outputs, match)

RECURSIVE ReplaceTemplatesLabelFirst(_, _)
\* a replaceTemplates that tries the labels before the node ids
ReplaceTemplatesLabelFirst(text, context) ==
    IF text = <<>> THEN <<>>
    ELSE LET match == Head(text)
             identifier == TemplateIdentifier(match)
             byLabel == LabelLookup(context.nodeLabels, 1, identifier,
                                    context.outputs, match)
             replaced ==
                 IF identifier = "" THEN <<match>>
                 ELSE IF byLabel # <<match>> THEN byLabel
                 ELSE IF identifier \in DOMAIN context.outputs
                 THEN context.outputs[identifier]
                 ELSE <<match>>
         IN replaced \o ReplaceTemplatesLabelFirst(Tail(text), context)

RECURSIVE ReplaceTemplates(_, _)
\* replaceTemplates(text, context)
ReplaceTemplates(text, context) ==
    IF text = <<>> THEN <<>>
    ELSE LET match == Head(text)
             identifier == TemplateIdentifier(match)
             replaced ==
                 IF identifier = "" THEN <<match>>
                 ELSE IF identifier \in DOMAIN context.outputs
                 THEN context.outputs[identifier]
                 ELSE LabelLookup(context.nodeLabels, 1, identifier,
                                  context.outputs, match)
         IN replaced \o ReplaceTemplates(Tail(text), context)

\* processNodeTemplates(node, context)
ProcessNodeTemplates(node, context) ==
    [node EXCEPT
        !.commands = [k \in 1 .. Len(@) |-> ReplaceTemplates(@[k], context)],
        !.prompt = IF @ # <<>> THEN ReplaceTemplates(@, context) ELSE @,
        !.path = IF @ # <<>> THEN ReplaceTemplates(@, context) ELSE @]

\* a findTriggerNodes that starts at the graph sources as well
FindTriggerNodesAndSources(nodes, edges) ==
    LET hasIncoming == {edges[k].target : k \in DOMAIN edges}
        at == SelectSeqBy([k \in DOMAIN nodes |-> k],
                          {k \in DOMAIN nodes :
                              \/ nodes[k].nodeType = "trigger"
                              \/ nodes[k].type = "trigger"
                              \/ nodes[k].id \notin hasIncoming})
    IN [k \in 1 .. Len(at) |-> nodes[at[k]].id]

\* findTriggerNodes(nodes, edges)
FindTriggerNodes(nodes, edges) ==
    LET hasIncoming == {edges[k].target : k \in DOMAIN edges}
        triggerAt == {k \in DOMAIN nodes :
                         nodes[k].nodeType = "trigger" \/ nodes[k].type = "trigger"}
        sourceAt == {k \in DOMAIN nodes : nodes[k].id \notin hasIncoming}
        at == SelectSeqBy([k \in DOMAIN nodes |-> k],
                          IF triggerAt # {} THEN triggerAt ELSE sourceAt)
    IN [k \in 1 .. Len(at) |-> nodes[at[k]].id]

\* executeShellCommand(command, cwd): what the process may print, and its
\* exit code
ExecuteShellCommand(command) ==
    {[output |-> <<"out">>, exitCode |-> 0],
     [output |-> <<"boom">>, exitCode |-> 1]}

RECURSIVE RunCommands(_, _, _, _)
\* the loop of executeNode over the commands of a shell node from k on
RunCommands(node, k, outputs, lastExitCode) ==
    IF k > Len(node.commands)
    THEN {[nodeId |-> node.id, status |-> "completed",
           output |-> Join(outputs, <<"\n", "\n">>), exitCode |-> lastExitCode]}
    ELSE IF Trim(node.commands[k]) = <<>>
    THEN RunCommands(node, k + 1, outputs, lastExitCode)
    ELSE UNION {
           LET printed == Append(outputs,
                              <<"$ ">> \o node.commands[k] \o <<"\n">> \o result.output)
           IN IF result.exitCode # 0
              THEN {[nodeId |-> node.id, status |-> "failed",
                     output |-> Join(printed, <<"\n", "\n">>),
                     exitCode |-> result.exitCode]}
              ELSE RunCommands(node, k + 1, printed, result.exitCode)
           : result \in ExecuteShellCommand(node.commands[k])}

\* executeNode(node, rootDirectory): the results it may resolve to
ExecuteNode(node) ==
    LET nodeType == IF node.nodeType # "" THEN node.nodeType ELSE node.type
    IN IF nodeType = "shell"
       THEN IF Len(node.commands) = 0
            THEN {[nodeId |-> node.id, status |-> "completed",
                   output |-> <<"(no commands to execute)">>, exitCode |-> None]}
            ELSE RunCommands(node, 1, <<>>, 0)
       ELSE IF nodeType = "trigger"
       THEN {[nodeId |-> node.id, status |-> "completed",
              output |-> <<"Trigger", " ", "activated">>, exitCode |-> None]}
       ELSE IF nodeType = "workdir"
       THEN {[nodeId |-> node.id, status |-> "completed",
              output |-> <<"Working directory: ">> \o
                            (IF node.path # <<>> THEN node.path ELSE <<"(not set)">>),
              exitCode |-> None]}
       ELSE {[nodeId |-> node.id, status |-> "completed",
              output |-> <<"Node type '", nodeType, "' execution not yet implemented">>,
              exitCode |-> None]}

\* result.output without the lines of the commands, trimmed
RawOutput(output) ==
    Trim(Join(SelectSeq(Split(output),
                        LAMBDA line : ~(line # <<>> /\ Head(line) = "$ ")),
              <<"\n">>))

\* no request, and a handler that has not begun
NoRequest == [nodes |-> <<>>, edges |-> <<>>, startNodeId |-> ""]
NoResponse == [status |-> 0, error |-> "", success |-> FALSE,
               results |-> <<>>, executionOrder |-> <<>>]
NoRun ==
    [pc |-> "none", queue |-> <<>>, visited |-> {}, executionOrder |-> <<>>,
     results |-> <<>>, overallSuccess |-> TRUE, outputs |-> <<>>,
     processedNode |-> NoNode, res |-> NoResponse]
NoExecution == request = NoRequest /\ run = NoRun

\* res.status(400).json({error})
BadRequest(st, error) ==
    [st EXCEPT !.pc = "sent", !.res = [NoResponse EXCEPT !.status = 400,
                                                         !.error = error]]

\* res.json({success, results, executionOrder})
Respond(st) ==
    [st EXCEPT !.pc = "sent",
               !.res = [NoResponse EXCEPT !.status = 200,
                                          !.success = st.overallSuccess,
                                          !.results = st.results,
                                          !.executionOrder = st.executionOrder]]

RECURSIVE TraverseNeverMarks(_)
\* a loop without a visited set
TraverseNeverMarks(st) ==
    IF Len(st.queue) > 0 /\ st.overallSuccess
    THEN LET nodeId == Head(st.queue)
             shifted == [st EXCEPT !.queue = Tail(@)]
         IN IF ~NodeMapHas(request.nodes, nodeId) THEN TraverseNeverMarks(shifted)
            ELSE [shifted EXCEPT
                     !.pc = "executing",
                     !.executionOrder = Append(@, nodeId),
                     !.processedNode =
                         ProcessNodeTemplates(
                             NodeMapGet(request.nodes, nodeId),
                             [outputs |-> st.outputs,
                              nodeLabels |-> NodeLabels(request.nodes)])]
    ELSE Respond(st)

RECURSIVE TraverseUnchecked(_)
\* a loop that does not look at visited when it takes a node off the queue
TraverseUnchecked(st) ==
    IF Len(st.queue) > 0 /\ st.overallSuccess
    THEN LET nodeId == Head(st.queue)
             shifted == [st EXCEPT !.queue = Tail(@)]
             marked == [shifted EXCEPT !.visited = @ \cup {nodeId}]
         IN IF ~NodeMapHas(request.nodes, nodeId) THEN TraverseUnchecked(marked)
            ELSE [marked EXCEPT
                     !.pc = "executing",
                     !.executionOrder = Append(@, nodeId),
                     !.processedNode =
                         ProcessNodeTemplates(
                             NodeMapGet(request.nodes, nodeId),
                             [outputs |-> st.outputs,
                              nodeLabels |-> NodeLabels(request.nodes)])]
    ELSE Respond(st)

RECURSIVE Traverse(_)
\* the while loop of the handler, from its test to the next
\* await executeNode(...) or to the response
Traverse(st) ==
    IF Len(st.queue) > 0 /\ st.overallSuccess
    THEN LET nodeId == Head(st.queue)
             shifted == [st EXCEPT !.queue = Tail(@)]
             marked == [shifted EXCEPT !.visited = @ \cup {nodeId}]
         IN IF nodeId \in st.visited THEN Traverse(shifted)
            ELSE IF ~NodeMapHas(request.nodes, nodeId) THEN Traverse(marked)
            ELSE [marked EXCEPT
                     !.pc = "executing",
                     !.executionOrder = Append(@, nodeId),
                     !.processedNode =
                         ProcessNodeTemplates(
                             NodeMapGet(request.nodes, nodeId),
                             [outputs |-> st.outputs,
                              nodeLabels |-> NodeLabels(request.nodes)])]
    ELSE Respond(st)

\* a router whose output context is created once, outside the handler
SharedContext(st) == [NoRun EXCEPT !.outputs = st.outputs]

\* the locals a call of the handler creates: context, results,
\* executionOrder, visited, overallSuccess (st holds what the call
\* before it left)
HandlerLocals(st) == NoRun

\* router.post('/'): the handler up to its first await
Post ==
    /\ run.pc = "received"
    /\ run' = IF request.startNodeId # ""
              THEN IF ~NodeMapHas(request.nodes, request.startNodeId)
                   THEN BadRequest(HandlerLocals(run), "Start node not found")
                   ELSE Traverse([HandlerLocals(run) EXCEPT
                                     !.queue = <<request.startNodeId>>])
              ELSE LET startNodes == FindTriggerNodes(request.nodes, request.edges)
                   IN IF Len(startNodes) = 0
                      THEN BadRequest(HandlerLocals(run),
                                      "No trigger or start node found")
                      ELSE Traverse([HandlerLocals(run) EXCEPT !.queue = startNodes])
    /\ UNCHANGED <<manager, last, request>>

\* the next POST arrives after the response to the one before
Receive(req) ==
    /\ run.pc = "sent"
    /\ request' = req
    /\ run' = [run EXCEPT !.pc = "received", !.res = NoResponse]
    /\ UNCHANGED manager

\* a handler that puts the connected nodes at the head of the queue
AddConnectedInFront(st, nodeId) ==
    LET nextNodes == BuildAdjacencyMap(request.edges, nodeId)
    IN [st EXCEPT !.queue =
           SelectSeq(nextNodes, LAMBDA nextId : nextId \notin st.visited) \o @]

\* the queue after the nodes connected to nodeId are added
AddConnected(st, nodeId) ==
    LET nextNodes == BuildAdjacencyMap(request.edges, nodeId)
    IN [st EXCEPT !.queue =
           @ \o SelectSeq(nextNodes, LAMBDA nextId : nextId \notin st.visited)]

\* a handler that leaves the result of a failed node out of results
SettleDropsFailed(st, result) ==
    LET pushed == [st EXCEPT !.results = Append(@, result),
                             !.processedNode = NoNode]
        stored == IF result.output # <<>>
                  THEN [pushed EXCEPT !.outputs =
                           [id \in DOMAIN @ \cup {result.nodeId} |->
                               IF id = result.nodeId THEN RawOutput(result.output)
                               ELSE @[id]]]
                  ELSE pushed
    IN IF result.status = "failed"
       THEN Respond([st EXCEPT !.overallSuccess = FALSE, !.processedNode = NoNode])
       ELSE Traverse(AddConnected(stored, result.nodeId))

\* the handler from results.push(result) to the next await or the response
Settle(st, result) ==
    LET pushed == [st EXCEPT !.results = Append(@, result),
                             !.processedNode = NoNode]
        stored == IF result.output # <<>>
                  THEN [pushed EXCEPT !.outputs =
                           [id \in DOMAIN @ \cup {result.nodeId} |->
                               IF id = result.nodeId THEN RawOutput(result.output)
                               ELSE @[id]]]
                  ELSE pushed
    IN IF result.status = "failed"
       THEN Respond([stored EXCEPT !.overallSuccess = FALSE])
       ELSE Traverse(AddConnected(stored, result.nodeId))

\* await executeNode(processedNode, ...) resolves
ExecuteNodeSettles ==
    /\ run.pc = "executing"
    /\ \E result \in ExecuteNode(run.processedNode) :
          run' = Settle(run, result)
    /\ UNCHANGED <<manager, last, request>>

\* ---------------------------------------------------------- specification
\* new TriggerManager({clock, triggersFile}), with room for n calls of
\* checkAndFire in flight
InitManager(n, file) ==
    /\ clock = 0
    /\ triggers = <<>>
    /\ heap = <<>>
    /\ idleSince = None
    /\ onTriggerFire = NoCallback
    /\ checkInterval = NoRef
    /\ timers = {}
    /\ triggersFile = file
    /\ disk = <<>>
    /\ cycles = [c \in 1 .. n |-> FreeCycle]
    /\ returned = FreeCycle
    /\ firedAt = [k \in Keys |-> None]
    /\ last = NoCall

\* The scheduler as the tests drive it: no triggers file, a registry of two
\* triggers of one workflow, checkAndFire called directly and awaited (one
\* call at a time), and the other calls interleaved with its awaits.
SchedTriples == {<<WsA, PathB, NodeN>>, <<WsA, PathB, NodeM>>}
SchedConfigs == {CronConfig("*/1"), IdleConfig(1)}

Init == InitManager(1, NoFile) /\ NoExecution

Next ==
    \/ \E t \in SchedTriples, config \in SchedConfigs :
          Register(t[1], t[2], t[3], "L1", config) /\ UNCHANGED <<last, executor>>
    \/ \E t \in SchedTriples : Unregister(t[1], t[2], t[3]) /\ UNCHANGED <<last, executor>>
    \/ UnregisterWorkflow(WsA, PathB) /\ UNCHANGED <<last, executor>>
    \/ \E isIdle \in BOOLEAN : SetIdle(isIdle) /\ UNCHANGED <<last, executor>>
    \/ OnFire("f") /\ UNCHANGED <<last, executor>>
    \/ Tick /\ UNCHANGED <<last, executor>>
    \/ CheckAndFire /\ UNCHANGED <<last, executor>>
    \/ \E c \in DOMAIN cycles : CallbackReturn(c) /\ UNCHANGED <<last, executor>>
    \/ \E c \in DOMAIN cycles : CallbackThrow(c) /\ UNCHANGED <<last, executor>>

Spec == Init /\ [][Next]_vars

\* The timer loop of start(): one cron trigger, and ticks of the interval
\* timer that come due whatever the calls in flight are doing.
TimerInit == InitManager(MaxCycles, NoFile) /\ NoExecution

TimerNext ==
    \/ Register(WsA, PathB, NodeN, "L1", CronConfig("*/1")) /\ UNCHANGED <<last, executor>>
    \/ OnFire("f") /\ UNCHANGED <<last, executor>>
    \/ Tick /\ UNCHANGED <<last, executor>>
    \/ Start /\ UNCHANGED <<last, executor>>
    \/ Stop /\ UNCHANGED <<last, executor>>
    \/ TimerFire /\ UNCHANGED <<last, executor>>
    \/ CheckAndFire /\ UNCHANGED <<last, executor>>
    \/ \E c \in DOMAIN cycles : CallbackReturn(c) /\ UNCHANGED <<last, executor>>
    \/ \E c \in DOMAIN cycles : CallbackThrow(c) /\ UNCHANGED <<last, executor>>

TimerSpec == TimerInit /\ [][TimerNext]_vars

\* The scheduler with triggers that are switched off and on while cycles
\* run: a cron trigger n, a trigger m that is cron or idle, a callback.
EnabledConfigs == {CronConfig("*/1"), IdleConfig(1)}

EnabledInit == InitManager(1, NoFile) /\ NoExecution

EnabledNext ==
    \/ Register(WsA, PathB, NodeN, "L1", CronConfig("*/1")) /\ UNCHANGED <<last, executor>>
    \/ \E config \in EnabledConfigs :
          Register(WsA, PathB, NodeM, "L1", config) /\ UNCHANGED <<last, executor>>
    \/ \E t \in SchedTriples, enabled \in BOOLEAN :
          SetEnabled(t[1], t[2], t[3], enabled) /\ UNCHANGED <<last, executor>>
    \/ \E isIdle \in BOOLEAN : SetIdle(isIdle) /\ UNCHANGED <<last, executor>>
    \/ OnFire("f") /\ UNCHANGED <<last, executor>>
    \/ Tick /\ UNCHANGED <<last, executor>>
    \/ CheckAndFire /\ UNCHANGED <<last, executor>>
    \/ \E c \in DOMAIN cycles : CallbackReturn(c) /\ UNCHANGED <<last, executor>>
    \/ \E c \in DOMAIN cycles : CallbackThrow(c) /\ UNCHANGED <<last, executor>>

EnabledSpec == EnabledInit /\ [][EnabledNext]_vars

\* The idle tracker as the idle tests drive it: triggers of one workflow
\* with thresholds of 0, 2, 5 and 10 minutes and a cron trigger, setIdle,
\* setEnabled and the mock clock advanced by minutes; last notes each call.
IdleTriples == {<<WsA, PathB, NodeN>>, <<WsA, PathB, NodeM>>, <<WsA, PathB, NodeP>>}
IdleConfigs(nodeId) ==
    CASE nodeId = NodeN -> {IdleConfig(0), IdleConfig(2), CronConfig("*/1")}
      [] nodeId = NodeM -> {IdleConfig(5)}
      [] OTHER -> {IdleConfig(10)}
Minutes == {1, 2}

IdleInit == InitManager(1, NoFile) /\ NoExecution

IdleNext ==
    \/ \E t \in IdleTriples : \E config \in IdleConfigs(t[3]) :
          /\ Register(t[1], t[2], t[3], "L1", config)
          /\ last' = [op |-> "register", args |-> <<t, "L1", config>>,
                      ret |-> KeyRef(GetTriggerKey(t[1], t[2], t[3]))]
          /\ UNCHANGED executor
    \/ \E t \in IdleTriples, enabled \in BOOLEAN :
          /\ SetEnabled(t[1], t[2], t[3], enabled)
          /\ last' = [op |-> "setEnabled", args |-> <<t, enabled>>,
                      ret |-> SetEnabledReturn(t[1], t[2], t[3])]
          /\ UNCHANGED executor
    \/ \E isIdle \in BOOLEAN :
          /\ SetIdle(isIdle)
          /\ last' = [op |-> "setIdle", args |-> <<isIdle>>, ret |-> None]
          /\ UNCHANGED executor
    \/ \E minutes \in Minutes :
          /\ Advance(minutes)
          /\ last' = [op |-> "advance", args |-> <<minutes>>, ret |-> None]
          /\ UNCHANGED executor

IdleSpec == IdleInit /\ [][IdleNext]_vars

\* Idle periods with busy pulses between them, as the tests of the idle
\* timer drive them: idle triggers with thresholds of 2 and 5 minutes, no
\* callback, setIdle, the mock clock and checkAndFire; last notes each call.
PulseInit == InitManager(1, NoFile) /\ NoExecution

PulseNext ==
    \/ /\ Register(WsA, PathB, NodeN, "L1", IdleConfig(2))
       /\ last' = [op |-> "register", args |-> <<<<WsA, PathB, NodeN>>, "L1", IdleConfig(2)>>,
                   ret |-> KeyRef(GetTriggerKey(WsA, PathB, NodeN))]
       /\ UNCHANGED executor
    \/ /\ Register(WsA, PathB, NodeM, "L1", IdleConfig(5))
       /\ last' = [op |-> "register", args |-> <<<<WsA, PathB, NodeM>>, "L1", IdleConfig(5)>>,
                   ret |-> KeyRef(GetTriggerKey(WsA, PathB, NodeM))]
       /\ UNCHANGED executor
    \/ \E isIdle \in BOOLEAN :
          /\ SetIdle(isIdle)
          /\ last' = [op |-> "setIdle", args |-> <<isIdle>>, ret |-> None]
          /\ UNCHANGED executor
    \/ \E minutes \in Minutes :
          /\ Advance(minutes)
          /\ last' = [op |-> "advance", args |-> <<minutes>>, ret |-> None]
          /\ UNCHANGED executor
    \/ /\ CheckAndFire
       /\ last' = [op |-> "checkAndFire", args |-> <<>>, ret |-> Len(returned'.fired)]
       /\ UNCHANGED executor

PulseSpec == PulseInit /\ [][PulseNext]_vars

\* The scheduler with a triggers file: a cron trigger n, a trigger m that
\* is cron or idle, a callback that returns or throws, and mkdir and
\* writeFile that succeed or fail.
SaveInit == InitManager(1, File) /\ NoExecution

SaveNext ==
    \/ Register(WsA, PathB, NodeN, "L1", CronConfig("*/1")) /\ UNCHANGED <<last, executor>>
    \/ \E config \in SchedConfigs :
          Register(WsA, PathB, NodeM, "L1", config) /\ UNCHANGED <<last, executor>>
    \/ SetIdle(TRUE) /\ UNCHANGED <<last, executor>>
    \/ OnFire("f") /\ UNCHANGED <<last, executor>>
    \/ Tick /\ UNCHANGED <<last, executor>>
    \/ CheckAndFire /\ UNCHANGED <<last, executor>>
    \/ \E c \in DOMAIN cycles : CallbackReturn(c) /\ UNCHANGED <<last, executor>>
    \/ \E c \in DOMAIN cycles : CallbackThrow(c) /\ UNCHANGED <<last, executor>>
    \/ \E c \in DOMAIN cycles, ok \in BOOLEAN :
          MkdirSettles(c, ok) /\ UNCHANGED <<last, executor>>
    \/ \E c \in DOMAIN cycles, ok \in BOOLEAN :
          WriteSettles(c, ok) /\ UNCHANGED <<last, executor>>

SaveSpec == SaveInit /\ [][SaveNext]_vars

\* The scheduler with no callback at first and callbacks that replace one
\* another: a cron trigger n, a trigger m that is cron or idle.
CallbackInit == InitManager(1, NoFile) /\ NoExecution

CallbackNext ==
    \/ Register(WsA, PathB, NodeN, "L1", CronConfig("*/1")) /\ UNCHANGED <<last, executor>>
    \/ \E config \in SchedConfigs :
          Register(WsA, PathB, NodeM, "L1", config) /\ UNCHANGED <<last, executor>>
    \/ SetIdle(TRUE) /\ UNCHANGED <<last, executor>>
    \/ \E callback \in Callbacks : OnFire(callback) /\ UNCHANGED <<last, executor>>
    \/ Tick /\ UNCHANGED <<last, executor>>
    \/ CheckAndFire /\ UNCHANGED <<last, executor>>
    \/ \E c \in DOMAIN cycles : CallbackReturn(c) /\ UNCHANGED <<last, executor>>

CallbackSpec == CallbackInit /\ [][CallbackNext]_vars

\* what the claim compares of a registry: per key the fields enabled,
\* config, nextRun and lastRun
Snapshot(m, h) ==
    [id \in MapKeys(m) |->
        [enabled |-> h[MapGet(m, id)].enabled,
         config |-> h[MapGet(m, id)].config,
         nextRun |-> h[MapGet(m, id)].nextRun,
         lastRun |-> h[MapGet(m, id)].lastRun]]

\* save and load: a manager with or without a triggers file, whose check
\* cycles fire and save, and a new manager that loads the file.  Here last
\* is the history of save(): args the registry of the last serialisation,
\* ret the registry whose text is in the file.
PersistInit ==
    /\ \E file \in {File, NoFile} : InitManager(1, file)
    /\ NoExecution

PersistNext ==
    \/ Register(WsA, PathB, NodeN, "L1", CronConfig("*/1")) /\ UNCHANGED <<last, executor>>
    \/ Register(WsA, PathB, NodeM, "L2", IdleConfig(1)) /\ UNCHANGED <<last, executor>>
    \/ \E enabled \in BOOLEAN :
          SetEnabled(WsA, PathB, NodeM, enabled) /\ UNCHANGED <<last, executor>>
    \/ SetIdle(TRUE) /\ UNCHANGED <<last, executor>>
    \/ Tick /\ UNCHANGED <<last, executor>>
    \/ CheckAndFire /\ UNCHANGED <<last, executor>>
    \/ \E c \in DOMAIN cycles, ok \in BOOLEAN :
          /\ MkdirSettles(c, ok)
          /\ last' = IF ok THEN [last EXCEPT !.args = <<Snapshot(triggers, heap)>>]
                      ELSE last
          /\ UNCHANGED executor
    \/ \E c \in DOMAIN cycles, ok \in BOOLEAN :
          /\ WriteSettles(c, ok)
          /\ last' = IF ok THEN [op |-> "save", args |-> last.args, ret |-> last.args]
                      ELSE last
          /\ UNCHANGED executor
    \/ Load /\ UNCHANGED <<last, executor>>
    \/ \E c \in DOMAIN cycles, ok \in BOOLEAN :
          ReadSettles(c, ok) /\ UNCHANGED <<last, executor>>
    \/ Restart /\ UNCHANGED <<last, executor>>

PersistSpec == PersistInit /\ [][PersistNext]_vars

\* Two POSTs, one after the other, on the same nodes and edges.  Here last
\* is the first run: args its request, ret its response.
RunRequests ==
    [nodes : {<<TriggerNode, ShellA, ShellB>>, <<ShellA, ShellB>>},
     edges : EdgeLists(MaxEdges - 1), startNodeId : StartNodeIds]

RunsInit ==
    /\ InitManager(1, NoFile)
    /\ request \in RunRequests
    /\ run = [NoRun EXCEPT !.pc = "received"]

RunsNext ==
    \/ Post
    \/ ExecuteNodeSettles
    \/ \E startNodeId \in StartNodeIds :
          /\ last.op = "none"
          /\ Receive([request EXCEPT !.startNodeId = startNodeId])
          /\ last' = [op |-> "run", args |-> request, ret |-> run.res]

RunsSpec == RunsInit /\ [][RunsNext]_vars

\* One key that is registered, disabled, fired and registered again, with
\* check cycles and a callback.  Here last has a field before on a
\* register (the record the key had when register was called, or
\* NoRecord) and a field prev on a checkAndFire (the call made before it).
NoRecord == [enabled |-> FALSE, lastRun |-> None, nextRun |-> None, registered |-> FALSE]

RecordBefore(workspace, workflowPath, nodeId) ==
    LET old == MapGet(triggers, GetTriggerKey(workspace, workflowPath, nodeId))
    IN IF old = NoRef THEN NoRecord
       ELSE [enabled |-> heap[old].enabled, lastRun |-> heap[old].lastRun,
             nextRun |-> heap[old].nextRun, registered |-> TRUE]

\* a call whose arguments and return no claim looks at
Stepped == [op |-> "step", args |-> <<>>, ret |-> None]

ReRegInit == InitManager(1, NoFile) /\ NoExecution

ReRegNext ==
    \/ \E config \in {CronConfig("*/1"), CronConfig("*/2"), IdleConfig(1)} :
          /\ Register(WsA, PathB, NodeN, "L1", config)
          /\ last' = [op |-> "register", args |-> <<<<WsA, PathB, NodeN>>, "L1", config>>,
                      ret |-> KeyRef(GetTriggerKey(WsA, PathB, NodeN)),
                      before |-> RecordBefore(WsA, PathB, NodeN)]
          /\ UNCHANGED executor
    \/ \E enabled \in BOOLEAN :
          SetEnabled(WsA, PathB, NodeN, enabled) /\ last' = Stepped /\ UNCHANGED executor
    \/ MarkFiredCall(WsA, PathB, NodeN) /\ last' = Stepped /\ UNCHANGED executor
    \/ Unregister(WsA, PathB, NodeN) /\ last' = Stepped /\ UNCHANGED executor
    \/ OnFire("f") /\ last' = Stepped /\ UNCHANGED executor
    \/ Tick /\ last' = Stepped /\ UNCHANGED executor
    \/ /\ CheckAndFire
       /\ last' = [op |-> "checkAndFire", args |-> <<>>, ret |-> None,
                   prev |-> IF last.op = "register" THEN last ELSE Stepped]
       /\ UNCHANGED executor
    \/ \E c \in DOMAIN cycles : CallbackReturn(c) /\ last' = Stepped /\ UNCHANGED executor
    \/ \E c \in DOMAIN cycles : CallbackThrow(c) /\ last' = Stepped /\ UNCHANGED executor

ReRegSpec == ReRegInit /\ [][ReRegNext]_vars

\* A cron trigger whose check cycles come late: the mock clock is advanced
\* by minutes between and during the cycles, so that a cycle finds one or
\* several occurrences passed.  last.before is the record of the key when
\* the call began or resumed.
LateCrons == {"*/1", "*/2"}
LateMinutes == {1, 2, 3}

LateInit == InitManager(1, NoFile) /\ NoExecution

LateNext ==
    \/ \E cron \in LateCrons :
          /\ Register(WsA, PathB, NodeN, "L1", CronConfig(cron))
          /\ last' = Stepped
          /\ UNCHANGED executor
    \/ \E cb \in {"f", NoCallback} : OnFire(cb) /\ last' = Stepped /\ UNCHANGED executor
    \/ \E minutes \in LateMinutes : Advance(minutes) /\ last' = Stepped /\ UNCHANGED executor
    \/ /\ CheckAndFire
       /\ last' = [op |-> "checkAndFire", args |-> <<>>, ret |-> None,
                   before |-> RecordBefore(WsA, PathB, NodeN)]
       /\ UNCHANGED executor
    \/ \E c \in DOMAIN cycles :
          /\ CallbackReturn(c)
          /\ last' = [op |-> "resume", args |-> <<>>, ret |-> None,
                      before |-> RecordBefore(WsA, PathB, NodeN)]
          /\ UNCHANGED executor

LateSpec == LateInit /\ [][LateNext]_vars

\* Idle triggers that are fired over and over: two idle triggers with
\* thresholds of 0 and 1 minute, a callback that returns or throws, setIdle
\* and setEnabled between and during the cycles.  last.before is the record
\* of trigger n when the call began or resumed.
AgainInit == InitManager(1, NoFile) /\ NoExecution

AgainNext ==
    \/ Register(WsA, PathB, NodeN, "L1", IdleConfig(0)) /\ last' = Stepped /\ UNCHANGED executor
    \/ Register(WsA, PathB, NodeM, "L1", IdleConfig(1)) /\ last' = Stepped /\ UNCHANGED executor
    \/ \E t \in SchedTriples, enabled \in BOOLEAN :
          SetEnabled(t[1], t[2], t[3], enabled) /\ last' = Stepped /\ UNCHANGED executor
    \/ \E isIdle \in BOOLEAN :
          /\ SetIdle(isIdle)
          /\ last' = [op |-> "setIdle", args |-> <<isIdle>>, ret |-> None]
          /\ UNCHANGED executor
    \/ OnFire("f") /\ last' = Stepped /\ UNCHANGED executor
    \/ Tick /\ last' = Stepped /\ UNCHANGED executor
    \/ /\ CheckAndFire
       /\ last' = [op |-> "checkAndFire", args |-> <<>>, ret |-> None,
                   before |-> RecordBefore(WsA, PathB, NodeN)]
       /\ UNCHANGED executor
    \/ \E c \in DOMAIN cycles :
          /\ CallbackReturn(c)
          /\ last' = [op |-> "resume", args |-> <<>>, ret |-> None,
                      before |-> RecordBefore(WsA, PathB, NodeN)]
          /\ UNCHANGED executor
    \/ \E c \in DOMAIN cycles : CallbackThrow(c) /\ last' = Stepped /\ UNCHANGED executor

AgainSpec == AgainInit /\ [][AgainNext]_vars

\* A cron trigger n and an idle trigger m of threshold 0 in one check
\* cycle, with setIdle called between and during the callbacks.  last.was
\* is idleSince when setIdle was called, last.prev the setIdle call made
\* just before a callback returned.
OrderInit == InitManager(1, NoFile) /\ NoExecution

OrderNext ==
    \/ Register(WsA, PathB, NodeN, "L1", CronConfig("*/1")) /\ last' = Stepped /\ UNCHANGED executor
    \/ Register(WsA, PathB, NodeM, "L1", IdleConfig(0)) /\ last' = Stepped /\ UNCHANGED executor
    \/ \E isIdle \in BOOLEAN :
          /\ SetIdle(isIdle)
          /\ last' = [op |-> "setIdle", args |-> <<isIdle>>, ret |-> None,
                      was |-> idleSince]
          /\ UNCHANGED executor
    \/ OnFire("f") /\ last' = Stepped /\ UNCHANGED executor
    \/ Tick /\ last' = Stepped /\ UNCHANGED executor
    \/ CheckAndFire /\ last' = Stepped /\ UNCHANGED executor
    \/ \E c \in DOMAIN cycles :
          /\ CallbackReturn(c)
          /\ last' = [op |-> "resume", args |-> <<>>, ret |-> None,
                      prev |-> IF last.op = "setIdle" THEN last ELSE Stepped]
          /\ UNCHANGED executor
    \/ \E c \in DOMAIN cycles : CallbackThrow(c) /\ last' = Stepped /\ UNCHANGED executor

OrderSpec == OrderInit /\ [][OrderNext]_vars

\* register with cron expressions that parse and that do not, and the
\* check cycles of a caller
BadCronConfigs == {CronConfig("bad"), CronConfig("*/1")}

BadCronInit == InitManager(1, NoFile) /\ NoExecution

BadCronNext ==
    \/ \E config \in BadCronConfigs :
          /\ Register(WsA, PathB, NodeN, "L1", config)
          /\ last' = [op |-> "register", args |-> <<<<WsA, PathB, NodeN>>, "L1", config>>,
                      ret |-> KeyRef(GetTriggerKey(WsA, PathB, NodeN))]
          /\ UNCHANGED executor
    \/ /\ Register(WsA, PathB, NodeM, "L2", CronConfig("*/1"))
       /\ last' = [op |-> "register",
                   args |-> <<<<WsA, PathB, NodeM>>, "L2", CronConfig("*/1")>>,
                   ret |-> KeyRef(GetTriggerKey(WsA, PathB, NodeM))]
       /\ UNCHANGED executor
    \/ \E enabled \in BOOLEAN :
          SetEnabled(WsA, PathB, NodeN, enabled) /\ last' = Stepped /\ UNCHANGED executor
    \/ OnFire("f") /\ last' = Stepped /\ UNCHANGED executor
    \/ Tick /\ last' = Stepped /\ UNCHANGED executor
    \/ CheckAndFire /\ last' = Stepped /\ UNCHANGED executor
    \/ \E c \in DOMAIN cycles :
          CallbackReturn(c) /\ last' = Stepped /\ UNCHANGED executor
    \/ \E c \in DOMAIN cycles :
          CallbackThrow(c) /\ last' = Stepped /\ UNCHANGED executor

BadCronSpec == BadCronInit /\ [][BadCronNext]_vars

\* The timer loop with a triggers file: one cron trigger, a callback that
\* returns or throws, and mkdir and writeFile that succeed or fail.
LoopInit == InitManager(MaxCycles, File) /\ NoExecution

LoopNext ==
    \/ Register(WsA, PathB, NodeN, "L1", CronConfig("*/1")) /\ UNCHANGED <<last, executor>>
    \/ OnFire("f") /\ UNCHANGED <<last, executor>>
    \/ Tick /\ UNCHANGED <<last, executor>>
    \/ Start /\ UNCHANGED <<last, executor>>
    \/ Stop /\ UNCHANGED <<last, executor>>
    \/ TimerFire /\ UNCHANGED <<last, executor>>
    \/ \E c \in DOMAIN cycles : CallbackReturn(c) /\ UNCHANGED <<last, executor>>
    \/ \E c \in DOMAIN cycles : CallbackThrow(c) /\ UNCHANGED <<last, executor>>
    \/ \E c \in DOMAIN cycles, ok \in BOOLEAN :
          MkdirSettles(c, ok) /\ UNCHANGED <<last, executor>>
    \/ \E c \in DOMAIN cycles, ok \in BOOLEAN :
          WriteSettles(c, ok) /\ UNCHANGED <<last, executor>>

LoopSpec == LoopInit /\ [][LoopNext]_vars

\* The registry under its synchronous calls, one after the other, with
\* workspaces and paths that contain the separator; last notes each call.
RegTriples == {<<WsA, PathB, NodeN>>, <<WsA, PathBC, NodeN>>, <<WsAB, PathC, NodeN>>}
RegConfigs == {CronConfig("*/1"), IdleConfig(1)}

RegInit == InitManager(1, NoFile) /\ NoExecution

RegNext ==
    \/ \E t \in RegTriples, label \in Labels, config \in RegConfigs :
          /\ Register(t[1], t[2], t[3], label, config)
          /\ last' = [op |-> "register", args |-> <<t, label, config>>,
                      ret |-> KeyRef(GetTriggerKey(t[1], t[2], t[3]))]
          /\ UNCHANGED executor
    \/ \E t \in RegTriples :
          /\ Unregister(t[1], t[2], t[3])
          /\ last' = [op |-> "unregister", args |-> t,
                      ret |-> UnregisterReturn(t[1], t[2], t[3])]
          /\ UNCHANGED executor
    \/ \E w \in Workflows :
          /\ UnregisterWorkflow(w[1], w[2])
          /\ last' = [op |-> "unregisterWorkflow", args |-> w,
                      ret |-> UnregisterWorkflowReturn(w[1], w[2])]
          /\ UNCHANGED executor
    \/ \E t \in RegTriples, enabled \in BOOLEAN :
          /\ SetEnabled(t[1], t[2], t[3], enabled)
          /\ last' = [op |-> "setEnabled", args |-> <<t, enabled>>,
                      ret |-> SetEnabledReturn(t[1], t[2], t[3])]
          /\ UNCHANGED executor
    \/ \E t \in RegTriples :
          /\ MarkFiredCall(t[1], t[2], t[3])
          /\ last' = [op |-> "markFired", args |-> t, ret |-> None]
          /\ UNCHANGED executor
    \/ /\ Clear
       /\ last' = [op |-> "clear", args |-> <<>>, ret |-> None]
       /\ UNCHANGED executor
    \/ /\ Tick
       /\ last' = [op |-> "tick", args |-> <<>>, ret |-> None]
       /\ UNCHANGED executor

RegSpec == RegInit /\ [][RegNext]_vars

\* The execute route under one request: the handler begins, and each
\* node it executes settles.
Requests ==
    [nodes : NodeLists, edges : EdgeLists(MaxEdges), startNodeId : StartNodeIds]

ExecInit ==
    /\ InitManager(1, NoFile)
    /\ request \in Requests
    /\ run = [NoRun EXCEPT !.pc = "received"]

ExecNext == Post \/ ExecuteNodeSettles

ExecSpec == ExecInit /\ [][ExecNext]_vars

\* one POST whose handler runs on when it can and whose every
\* executeNode settles
ExecLiveSpec ==
    /\ RunsInit
    /\ [][ExecNext]_vars
    /\ WF_vars(Post)
    /\ WF_vars(ExecuteNodeSettles)


\* ------------------------------------------------------------------ C1
\* C1: the ticks of the timer loop of start() never overlap: at no time
\* are two checkAndFire cycles begun by the timer in progress.
C1_TicksNeverOverlap ==
    Cardinality({c \in DOMAIN cycles :
                    InFlight(cycles[c]) /\ cycles[c].origin = "timer"}) <= 1

\* ------------------------------------------------------------------ C2
\* how often the callback was called with trigger r in a cycle
Calls(cy, r) == Cardinality({k \in DOMAIN cy.calls : cy.calls[k] = r})

\* C2: a cycle with a registered callback that did not throw has called
\* the callback exactly once for every Cron trigger that was enabled and
\* due when the cycle began, and returns each of them.
C2_EveryDueCronFiredOnce ==
    (returned.pc = "done" /\ returned.cb # NoCallback /\ returned.threw = {})
        => \A r \in returned.cronAtStart :
              Calls(returned, r) = 1 /\ r \in Range(returned.fired)

C2_Witness ==
    /\ returned.pc = "done"
    /\ returned.cb # NoCallback
    /\ returned.threw = {}
    /\ Cardinality(returned.cronAtStart) = 2
    /\ Len(returned.fired) = 2

\* ------------------------------------------------------------------ C3
\* the places of the Idle triggers in a list of a cycle
IdleAmong(list) == {k \in DOMAIN list : heap[list[k]].config.type = "idle"}

\* what a returned cycle did about the Idle triggers
C3_OneOfTheDue ==
    returned.pc = "done" =>
        /\ Cardinality(IdleAmong(returned.fired)) <= 1
        /\ Cardinality(IdleAmong(returned.calls)) <= 1
        /\ \A k \in IdleAmong(returned.fired) :
              returned.fired[k] \in returned.idleAtSel
        /\ \A k \in IdleAmong(returned.calls) :
              returned.calls[k] \in returned.idleAtSel
        /\ returned.idleAtSel = {} =>
              IdleAmong(returned.fired) = {} /\ IdleAmong(returned.calls) = {}
        /\ (returned.idleAtSel # {} /\ returned.cb # NoCallback) =>
              Cardinality(IdleAmong(returned.calls)) = 1
        /\ (returned.idleAtSel # {} /\ returned.cb = NoCallback) =>
              Cardinality(IdleAmong(returned.fired)) = 1

\* the step that ends a cycle leaves the lastRun of the due Idle triggers
\* it did not select as it was
C3_OthersKeepLastRun ==
    returned'.pc = "done" =>
        \A r \in returned'.idleAtSel \ {returned'.sel} :
            heap'[r].lastRun = heap[r].lastRun

\* C3: a cycle fires at most one Idle trigger: with due Idle triggers the
\* callback is called for exactly one of them and the others keep their
\* lastRun; with none due no Idle trigger fires.
C3_AtMostOneIdleFired == []C3_OneOfTheDue /\ [][C3_OthersKeepLastRun]_vars

C3_Witness ==
    /\ returned.pc = "done"
    /\ returned.cb # NoCallback
    /\ Cardinality(returned.idleAtSel) = 2
    /\ returned.sel \in Range(returned.fired)
    /\ \E r \in returned.idleAtSel : heap[r].lastRun = None

\* ------------------------------------------------------------------ C4
\* C4: a cycle in which the callback threw still returns normally, and has
\* called the callback for every Cron trigger due at its start and, with
\* Idle triggers due, for one of them.
C4_ThrowDoesNotStopCycle ==
    (returned.pc = "done" /\ returned.threw # {}) =>
        /\ ~returned.rejected
        /\ \A r \in returned.cronAtStart : Calls(returned, r) = 1
        /\ returned.idleAtSel # {} =>
              \E r \in returned.idleAtSel : Calls(returned, r) = 1

C4_Witness ==
    /\ returned.pc = "done"
    /\ Len(returned.calls) = 2
    /\ returned.calls[1] \in returned.threw
    /\ returned.fired = <<returned.calls[2]>>

\* ------------------------------------------------------------------ C5
\* the cycle of call c after a step: its slot, or the returned call when
\* it is the one that returned (a call that begins and returns in one step
\* is the call of the first free slot)
After(c) ==
    IF cycles'[c].pc # "free" THEN cycles'[c]
    ELSE IF cycles[c].pc # "free" THEN returned'
    ELSE IF /\ \A d \in DOMAIN cycles : cycles'[d].pc = cycles[d].pc
            /\ \A d \in DOMAIN cycles : d < c => cycles[d].pc # "free"
         THEN returned'
         ELSE FreeCycle

\* no cycle lists as fired a trigger whose callback threw
C5_ThrownNotReturned ==
    /\ returned.threw \cap Range(returned.fired) = {}
    /\ \A c \in DOMAIN cycles : cycles[c].threw \cap Range(cycles[c].fired) = {}

\* the step in which a callback throws changes neither lastRun nor nextRun
\* of its trigger, and a Cron trigger that was due stays due
C5_ThrowLeavesTrigger ==
    \A c \in DOMAIN cycles :
        (/\ cycles[c].pc \in {"cron", "idle"}
         /\ Cardinality(After(c).threw) > Cardinality(cycles[c].threw)) =>
            LET r == Awaited(cycles[c])
            IN /\ r \in After(c).threw
               /\ heap'[r].lastRun = heap[r].lastRun
               /\ heap'[r].nextRun = heap[r].nextRun
               /\ r \in ClaimDueCron(triggers, heap, clock) =>
                     r \in ClaimDueCron(triggers', heap', clock')

\* C5: a trigger whose callback throws is not marked fired: lastRun and
\* nextRun stay as they were, it is not in the returned list, and a due
\* Cron trigger is still due for the next cycle.
C5_ThrowIsNotFired == []C5_ThrownNotReturned /\ [][C5_ThrowLeavesTrigger]_vars

C5_Witness ==
    /\ returned.pc = "done"
    /\ returned.fired = <<>>
    /\ \E r \in returned.threw : r \in ClaimDueCron(triggers, heap, clock)

\* ------------------------------------------------------------------ C6
\* the targets of the edges that leave the nodes of a set
Successors(edges, from) ==
    {edges[k].target : k \in {j \in DOMAIN edges : edges[j].source \in from}}

RECURSIVE ReachableFrom(_, _)
\* the nodes of a set and those its edges lead to
ReachableFrom(edges, from) ==
    LET more == from \cup Successors(edges, from)
    IN IF more = from THEN from ELSE ReachableFrom(edges, more)

\* A request as a workflow editor makes it: no start node given, every
\* edge between nodes of the request that the start nodes lead to, no
\* cycle, no edge into a trigger.
WellFormed(req) ==
    /\ req.startNodeId = ""
    /\ \A k \in DOMAIN req.edges :
          /\ NodeMapHas(req.nodes, req.edges[k].source)
          /\ NodeMapHas(req.nodes, req.edges[k].target)
          /\ req.edges[k].target # "t"
          /\ req.edges[k].source \in
                ReachableFrom(req.edges, Range(FindTriggerNodes(req.nodes, req.edges)))
    /\ \A n \in NodeIds :
          n \notin ReachableFrom(req.edges, Successors(req.edges, {n}))

\* the ids of the nodes that have a result
Executed(st) == {st.results[k].nodeId : k \in DOMAIN st.results}

TheChain ==
    [nodes |-> <<TriggerNode, ShellA, ShellB>>,
     edges |-> <<[source |-> "t", target |-> "a"], [source |-> "a", target |-> "b"]>>,
     startNodeId |-> ""]

\* C6: once a node has failed no further node begins: the failed node is
\* the last of executionOrder and of results, success is false, and the
\* successors of the failed node are not in results; trigger -> shellA ->
\* shellB with shellA failing gives executionOrder = [trigger, shellA]
\* (stated for the well-formed requests).
C6_FailureStopsRun ==
    WellFormed(request) =>
        \A k \in DOMAIN run.results :
            run.results[k].status = "failed" =>
                /\ k = Len(run.results)
                /\ k = Len(run.executionOrder)
                /\ run.executionOrder[k] = run.results[k].nodeId
                /\ run.pc = "sent"
                /\ run.res.status = 200 /\ ~run.res.success
                /\ Successors(request.edges, {run.results[k].nodeId})
                       \cap Executed(run) = {}
                /\ (request = TheChain /\ run.results[k].nodeId = "a") =>
                       run.res.executionOrder = <<"t", "a">>

\* ------------------------------------------------------------------ C7
\* C7: a node starts only after every node with an edge into it has
\* completed in the run (stated for the well-formed requests, which have
\* no start node given and no cycle).
C7_StartsAfterPredecessors ==
    WellFormed(request) =>
        \A k \in DOMAIN run.executionOrder :
            \A e \in DOMAIN request.edges :
                request.edges[e].target = run.executionOrder[k] =>
                    \E j \in 1 .. k - 1 :
                        /\ j <= Len(run.results)
                        /\ run.results[j].nodeId = request.edges[e].source
                        /\ run.results[j].status = "completed"

\* ------------------------------------------------------------------ C8
\* C8: register during the await of a key's callback loses no update: a
\* trigger fired in a cycle whose key is registered when the cycle returns
\* has, in the registry, the lastRun of the fire and a nextRun after it.
C8_NoLostUpdate ==
    returned.pc = "done" =>
        \A k \in DOMAIN returned.fired :
            LET fired == heap[returned.fired[k]]
                now == MapGet(triggers, fired.id)
            IN now # NoRef =>
                  /\ heap[now].lastRun = fired.lastRun
                  /\ heap[now].config.type = "cron" =>
                        heap[now].nextRun = None \/ heap[now].nextRun > fired.lastRun

\* ------------------------------------------------------------------ C9
\* the record the registry holds for a key
Record(m, h, id) == h[MapGet(m, id)]

\* lastRun of a registered key is when markFired last ran on its record
C9_LastRunIsLastFire ==
    \A id \in MapKeys(triggers) : Record(triggers, heap, id).lastRun = firedAt[id]

\* register on a key leaves lastRun and stores the new label and config
C9_RegisterKeepsLastRun ==
    last'.op = "register" =>
        LET t == last'.args[1]
            id == GetTriggerKey(t[1], t[2], t[3])
        IN /\ Record(triggers', heap', id).label = last'.args[2]
           /\ Record(triggers', heap', id).config = last'.args[3]
           /\ id \in MapKeys(triggers) =>
                 Record(triggers', heap', id).lastRun =
                     Record(triggers, heap, id).lastRun

\* C9: re-registering a key keeps its lastRun and replaces label and
\* config; after any sequence of register, markFired and setEnabled the
\* lastRun of a key is the time of the last markFired on it, or absent.
C9_LastRunSurvivesRegister ==
    []C9_LastRunIsLastFire /\ [][C9_RegisterKeepsLastRun]_vars

C9_Witness ==
    /\ last.op = "register"
    /\ clock > 0
    /\ LET id == GetTriggerKey(last.args[1][1], last.args[1][2], last.args[1][3])
       IN /\ Record(triggers, heap, id).lastRun = 0
          /\ Record(triggers, heap, id).label = "L2"
          /\ Record(triggers, heap, id).nextRun = clock + 1

\* ----------------------------------------------------------------- C10
\* key starts with workspace:workflowPath:
C10_HasPrefix(id, workspace, workflowPath) ==
    \E rest \in 1 .. Len(id) :
        id = workspace \o <<":">> \o workflowPath \o <<":">>
                \o SubSeq(id, Len(id) - rest + 1, Len(id))

\* C10: unregisterWorkflow(workspace, workflowPath) removes exactly the
\* triggers whose key starts with workspace:workflowPath:, leaves the
\* others as they were and in their order, and returns how many it removed.
C10_UnregisterWorkflowExact ==
    [][last'.op = "unregisterWorkflow" =>
          LET gone == {id \in MapKeys(triggers) :
                          C10_HasPrefix(id, last'.args[1], last'.args[2])}
          IN /\ MapKeys(triggers') = MapKeys(triggers) \ gone
             /\ triggers' = SelectSeq(triggers, LAMBDA e : e.id \notin gone)
             /\ \A id \in MapKeys(triggers') :
                   Record(triggers', heap', id) = Record(triggers, heap, id)
             /\ last'.ret = Cardinality(gone)]_vars

C10_Witness ==
    /\ last.op = "unregisterWorkflow"
    /\ last.ret = 1
    /\ Len(triggers) = 1

\* ----------------------------------------------------------------- C11
\* the (workspace, workflowPath, nodeId) a record was registered with
TripleOf(rec) == <<rec.workspace, rec.workflowPath, rec.nodeId>>

\* C11: a registration never overwrites the record of a different
\* (workspace, workflowPath, nodeId): every record registered under another
\* triple is still in the registry, as it was, after the register call,
\* also when the components contain the separator.
C11_DistinctTriplesDistinctRecords ==
    [][last'.op = "register" =>
          \A id \in MapKeys(triggers) :
              TripleOf(Record(triggers, heap, id)) # last'.args[1] =>
                  \E other \in MapKeys(triggers') :
                      Record(triggers', heap', other) = Record(triggers, heap, id)]_vars

\* ----------------------------------------------------------------- C12
\* the lists a cycle that begins in this step took from getDueTriggers and
\* getDueIdleTriggers hold enabled triggers only
C12_DueAreEnabled ==
    \A c \in DOMAIN cycles :
        cycles[c].pc = "free" /\ After(c).pc # "free" =>
            \A r \in Range(After(c).due) \cup After(c).idleAtSel : heap'[r].enabled

\* a trigger the callback is invoked for in this step, or that is marked
\* fired without a callback, is enabled
C12_FiredAreEnabled ==
    \A c \in DOMAIN cycles :
        /\ Len(After(c).calls) > Len(cycles[c].calls) =>
              heap'[After(c).calls[Len(After(c).calls)]].enabled
        /\ After(c).cb = NoCallback =>
              \A k \in DOMAIN After(c).fired :
                  k > Len(cycles[c].fired) => heap'[After(c).fired[k]].enabled

\* C12: a disabled trigger is in no result of getDueTriggers or
\* getDueIdleTriggers and checkAndFire never fires it while it is disabled.
C12_DisabledNeverFired ==
    [][C12_DueAreEnabled /\ C12_FiredAreEnabled]_vars

\* ----------------------------------------------------------------- C13
\* C13: setEnabled on an absent key returns false and changes nothing; on
\* a registered key it returns true and sets the enabled flag of that
\* record, leaving its other fields, the other records and the order of
\* the registry as they were.
C13_SetEnabledFrame ==
    [][last'.op = "setEnabled" =>
          LET t == last'.args[1]
              id == GetTriggerKey(t[1], t[2], t[3])
          IN /\ triggers' = triggers
             /\ last'.ret = (id \in MapKeys(triggers))
             /\ \A other \in MapKeys(triggers) \ {id} :
                   Record(triggers', heap', other) = Record(triggers, heap, other)
             /\ id \in MapKeys(triggers) =>
                   Record(triggers', heap', id) =
                       [Record(triggers, heap, id) EXCEPT !.enabled = last'.args[2]]
             /\ <<clock', idleSince', onTriggerFire', disk'>> =
                   <<clock, idleSince, onTriggerFire, disk>>]_vars

C13_Witness ==
    /\ last.op = "setEnabled"
    /\ last.ret
    /\ Len(triggers) = 2
    /\ LET t == last.args[1]
           rec == Record(triggers, heap, GetTriggerKey(t[1], t[2], t[3]))
       IN /\ ~rec.enabled
          /\ rec.lastRun # None
          /\ rec.nextRun # None

\* ----------------------------------------------------------------- C14
\* getDueTriggers() holds, in registry order and once each, exactly the
\* registered triggers that are enabled, of type cron and have a nextRun
\* that is not after now
C14_ExactlyTheDue ==
    LET due == GetDueTriggers(triggers, heap, clock)
        all == GetAll(triggers)
    IN /\ \A k \in DOMAIN due :
             /\ heap[due[k]].enabled
             /\ heap[due[k]].config.type = "cron"
             /\ heap[due[k]].nextRun # None
             /\ heap[due[k]].nextRun <= clock
       /\ \A id \in MapKeys(triggers) :
             LET rec == Record(triggers, heap, id)
             IN (rec.enabled /\ rec.config.type = "cron"
                    /\ rec.nextRun # None /\ rec.nextRun <= clock)
                   => MapGet(triggers, id) \in Range(due)
       /\ \A j, k \in DOMAIN due :
             j < k => \E p, q \in DOMAIN all :
                         p < q /\ all[p] = due[j] /\ all[q] = due[k]

\* a cron trigger is not due at the time it is registered
C14_NotDueWhenRegistered ==
    (last'.op = "register" /\ last'.args[3].type = "cron") =>
        LET t == last'.args[1]
            id == GetTriggerKey(t[1], t[2], t[3])
        IN /\ Record(triggers', heap', id).nextRun > clock'
           /\ MapGet(triggers', id) \notin Range(GetDueTriggers(triggers', heap', clock'))

\* C14: getDueTriggers returns exactly the enabled cron triggers with
\* nextRun <= now, the boundary included, and no idle trigger; a cron
\* trigger is not due when registered and is due when the clock is at its
\* nextRun.
C14_DueCronExact ==
    []C14_ExactlyTheDue /\ [][C14_NotDueWhenRegistered]_vars

C14_Witness ==
    LET due == GetDueTriggers(triggers, heap, clock)
    IN /\ Len(triggers) = 2
       /\ Len(due) = 1
       /\ heap[due[1]].nextRun = clock
       /\ \E id \in MapKeys(triggers) :
             Record(triggers, heap, id).config.type = "idle"

\* ----------------------------------------------------------------- C15
\* the threshold of an idle record, in minutes
Threshold(rec) == IF rec.config.idleMinutes = None THEN 0 ELSE rec.config.idleMinutes

\* the node ids of the triggers getDueIdleTriggers() returns
DueIdleNodes ==
    LET due == GetDueIdleTriggers(triggers, heap, idleSince, clock)
    IN [k \in DOMAIN due |-> heap[due[k]].nodeId]

\* the registry holds the enabled idle triggers n, m, p with the
\* thresholds 2, 5 and 10
C15_TwoFiveTen ==
    /\ MapKeys(triggers) = {GetTriggerKey(t[1], t[2], t[3]) : t \in IdleTriples}
    /\ \A id \in MapKeys(triggers) :
          /\ Record(triggers, heap, id).enabled
          /\ Record(triggers, heap, id).config.type = "idle"
    /\ Threshold(Record(triggers, heap, GetTriggerKey(WsA, PathB, NodeN))) = 2
    /\ Threshold(Record(triggers, heap, GetTriggerKey(WsA, PathB, NodeM))) = 5
    /\ Threshold(Record(triggers, heap, GetTriggerKey(WsA, PathB, NodeP))) = 10

\* C15: getDueIdleTriggers returns nothing when the system is not idle;
\* when idle it returns, once each and in registry order, exactly the
\* enabled idle triggers whose threshold is <= now - idleSince, so a
\* threshold of 0 is due at the instant idle is entered; with thresholds
\* 2, 5, 10 none is due 1 minute after idle began, only the 2-minute one
\* after 3 minutes and all three after 11 minutes.
C15_DueIdleExact ==
    LET due == GetDueIdleTriggers(triggers, heap, idleSince, clock)
        all == GetAll(triggers)
    IN /\ idleSince = None => due = <<>>
       /\ idleSince # None =>
             /\ Range(due) = {r \in MapRefs(triggers) :
                                 /\ heap[r].enabled
                                 /\ heap[r].config.type = "idle"
                                 /\ Threshold(heap[r]) <= clock - idleSince}
             /\ \A j, k \in DOMAIN due :
                   j < k => \E p, q \in DOMAIN all :
                               p < q /\ all[p] = due[j] /\ all[q] = due[k]
             /\ \A r \in MapRefs(triggers) :
                   (heap[r].enabled /\ heap[r].config.type = "idle"
                       /\ Threshold(heap[r]) = 0 /\ idleSince = clock)
                      => r \in Range(due)
       /\ (C15_TwoFiveTen /\ idleSince # None) =>
             /\ clock - idleSince = 1 => due = <<>>
             /\ clock - idleSince = 3 => DueIdleNodes = <<NodeN>>
             /\ clock - idleSince = 11 => Len(due) = 3

C15_Witness ==
    /\ C15_TwoFiveTen
    /\ idleSince # None
    /\ clock - idleSince = 11
    /\ Len(GetDueIdleTriggers(triggers, heap, idleSince, clock)) = 3

\* ----------------------------------------------------------------- C16
\* the triggers call c marks fired in this step
NewlyFired(c) ==
    {After(c).fired[k] : k \in {j \in DOMAIN After(c).fired : j > Len(cycles[c].fired)}}

\* C16: markFired sets lastRun to the current time and the nextRun of a
\* cron trigger to an occurrence strictly after it, so a trigger that was
\* just fired is not due before the clock reaches the new nextRun, and no
\* cron trigger is fired a second time at the clock instant it was fired at.
C16_FiredOncePerInstant ==
    [][\A c \in DOMAIN cycles : \A r \in NewlyFired(c) :
          /\ heap'[r].lastRun = clock'
          /\ heap'[r].config.type = "cron" =>
                /\ heap'[r].nextRun = NextOccurrence(CronPeriod(heap'[r].config.cron), clock')
                /\ heap'[r].nextRun > clock'
                /\ ~IsDueCron(heap'[r], clock')
                /\ heap[r].lastRun # clock]_vars

\* ----------------------------------------------------------------- C17
\* getIdleDuration() is 0 when not idle and the time since idleSince when idle
C17_DurationFromIdleSince ==
    /\ idleSince = None => GetIdleDuration(idleSince, clock) = 0
    /\ idleSince # None =>
          /\ idleSince <= clock
          /\ GetIdleDuration(idleSince, clock) = clock - idleSince

\* setIdle changes idleSince on an edge only, and nothing else does
C17_EdgeOnly ==
    /\ last'.op = "setIdle" =>
          /\ (last'.args[1] /\ idleSince # None) => idleSince' = idleSince
          /\ (last'.args[1] /\ idleSince = None) => idleSince' = clock
          /\ ~last'.args[1] => idleSince' = None
          /\ (~last'.args[1] /\ idleSince = None) =>
                <<clock', triggers', heap', idleSince'>> = <<clock, triggers, heap, idleSince>>
          /\ <<clock', triggers', heap'>> = <<clock, triggers, heap>>
    /\ last'.op # "setIdle" => idleSince' = idleSince

\* C17: setIdle(true) records idleSince on the not-idle to idle edge only:
\* called again while idle, at any later time, it leaves idleSince as it is
\* and getIdleDuration keeps measuring from the first call; setIdle(false)
\* while not idle changes nothing and getIdleDuration is 0 when not idle.
C17_SetIdleEdgeTriggered ==
    []C17_DurationFromIdleSince /\ [][C17_EdgeOnly]_vars

C17_Witness ==
    /\ last.op = "setIdle"
    /\ last.args[1]
    /\ idleSince # None
    /\ GetIdleDuration(idleSince, clock) >= 5

\* ----------------------------------------------------------------- C18
\* an idle trigger is due exactly when the system is idle and its
\* threshold has elapsed since idleSince
C18_DueSinceEdge ==
    LET due == GetDueIdleTriggers(triggers, heap, idleSince, clock)
    IN \A r \in MapRefs(triggers) :
          r \in Range(due) <=>
              /\ idleSince # None
              /\ heap[r].enabled
              /\ heap[r].config.type = "idle"
              /\ Threshold(heap[r]) <= clock - idleSince

\* setIdle(false) ends the idle period, the next setIdle(true) begins one
\* at the current time, no other call moves idleSince, and checkAndFire
\* fires an idle trigger only when its threshold has elapsed since then
C18_PulseRestarts ==
    LET after == GetDueIdleTriggers(triggers', heap', idleSince', clock')
    IN /\ (last'.op = "setIdle" /\ ~last'.args[1]) =>
              idleSince' = None /\ after = <<>>
       /\ (last'.op = "setIdle" /\ last'.args[1] /\ idleSince = None) =>
              /\ idleSince' = clock'
              /\ GetIdleDuration(idleSince', clock') = 0
              /\ \A k \in DOMAIN after : Threshold(heap'[after[k]]) = 0
       /\ last'.op # "setIdle" => idleSince' = idleSince
       /\ last'.op = "checkAndFire" =>
              \A id \in MapKeys(triggers) :
                  Record(triggers', heap', id).lastRun # Record(triggers, heap, id).lastRun =>
                      /\ idleSince # None
                      /\ Threshold(Record(triggers, heap, id)) <= clock - idleSince

\* C18: setIdle(false) followed by setIdle(true) restarts the idle duration
\* from zero for every idle trigger, also when the earlier idle period had
\* passed a trigger's threshold: the trigger is due, and fired, only once
\* its threshold has elapsed since the most recent setIdle(true) edge.
C18_BusyPulseResets ==
    []C18_DueSinceEdge /\ [][C18_PulseRestarts]_vars

\* a trigger fired in an earlier idle period (one that began no later than
\* lastRun - threshold) is due again, its threshold after the latest edge
C18_Witness ==
    /\ idleSince # None
    /\ \E id \in MapKeys(triggers) :
          LET rec == Record(triggers, heap, id)
          IN /\ rec.lastRun # None
             /\ idleSince > rec.lastRun - Threshold(rec)
             /\ clock - idleSince = Threshold(rec)
             /\ MapGet(triggers, id) \in
                   Range(GetDueIdleTriggers(triggers, heap, idleSince, clock))

\* ----------------------------------------------------------------- C19
\* a checkAndFire call begins, goes on after an await or returns in this step
CycleStep ==
    \/ returned'.pc = "done"
    \/ \E c \in DOMAIN cycles :
          <<cycles'[c].pc, cycles'[c].i>> # <<cycles[c].pc, cycles[c].i>>

\* C19: checkAndFire does not change the idle state: every step of a
\* cycle, also one that fires an idle trigger, leaves idleSince as it was.
C19_CycleKeepsIdleSince ==
    [][CycleStep => idleSince' = idleSince]_vars

C19_Witness ==
    /\ returned.pc = "done"
    /\ returned.cb # NoCallback
    /\ idleSince # None
    /\ \E k \in DOMAIN returned.fired :
          /\ heap[returned.fired[k]].config.type = "idle"
          /\ heap[returned.fired[k]].lastRun = clock

\* ----------------------------------------------------------------- C20
\* call c is inside save(): at the await of mkdir or of writeFile
Saving(cy) == cy.pc \in {"mkdir", "write"}

\* one step of a cycle, with a triggers file configured
C20_SaveStep ==
    \A c \in DOMAIN cycles :
        \* save() begins only when a trigger fired in the cycle
        /\ (Saving(cycles'[c]) /\ ~Saving(cycles[c])) => Len(cycles'[c].fired) > 0
        \* and after every markFired of the cycle
        /\ Saving(cycles[c]) => Len(After(c).fired) = Len(cycles[c].fired)
        \* the text written is the registry as it is after them
        /\ (cycles[c].pc = "mkdir" /\ cycles'[c].pc = "write") =>
              cycles'[c].buf = <<Serialize(triggers, heap, clock)>>
        \* a cycle that fired returns from save(), one that did not fire
        \* returns without it and leaves the file alone
        /\ (InFlight(cycles[c]) /\ returned'.pc = "done" /\ ~InFlight(cycles'[c])) =>
              /\ Saving(cycles[c]) <=> Len(returned'.fired) > 0
              /\ ~Saving(cycles[c]) => disk' = disk
        /\ (~InFlight(cycles[c]) /\ returned'.pc = "done") =>
              Len(returned'.fired) = 0 /\ disk' = disk

\* the file changes only when a writeFile settles, in the step its cycle returns
C20_WriteBeforeReturn ==
    disk' # disk =>
        \E c \in DOMAIN cycles :
            /\ cycles[c].pc = "write"
            /\ disk' = cycles[c].buf
            /\ returned'.pc = "done"
            /\ Len(returned'.fired) > 0

\* C20: checkAndFire saves the registry if and only if a trigger fired in
\* the cycle: the save begins after every markFired of the cycle and has
\* completed when checkAndFire returns, and a cycle in which nothing fired
\* or every callback threw performs no save.
C20_SaveIffFired ==
    [][C20_SaveStep /\ C20_WriteBeforeReturn]_vars

C20_Witness ==
    /\ returned.pc = "done"
    /\ returned.cb # NoCallback
    /\ Len(returned.fired) = 2
    /\ returned.threw = {}
    /\ disk = <<Serialize(triggers, heap, clock)>>
    /\ \A k \in DOMAIN returned.fired : heap[returned.fired[k]].lastRun = clock

\* ----------------------------------------------------------------- C21
\* a checkAndFire call made with no callback registered returns at once,
\* has called nothing, and has marked fired and returned every due cron
\* trigger and one of the due idle triggers, leaving the others alone
C21_DryRun ==
    (onTriggerFire = NoCallback /\ returned'.pc = "done"
        /\ \A c \in DOMAIN cycles : ~InFlight(cycles[c])) =>
        LET fired == returned'.fired
            cron == ClaimDueCron(triggers, heap, clock)
            idle == ClaimDueIdle(triggers, heap, idleSince, clock)
        IN /\ returned'.calls = <<>>
           /\ Cardinality(Range(fired)) = Len(fired)
           /\ Range(fired) \cap {r \in MapRefs(triggers) : heap[r].config.type = "cron"} = cron
           /\ Range(fired) \ cron \subseteq idle
           /\ Cardinality(Range(fired) \ cron) = IF idle = {} THEN 0 ELSE 1
           /\ \A r \in Range(fired) :
                 /\ heap'[r].lastRun = clock
                 /\ heap'[r].config.type = "cron" =>
                       heap'[r].nextRun =
                           NextOccurrence(CronPeriod(heap'[r].config.cron), clock)
           /\ \A r \in MapRefs(triggers) \ Range(fired) : heap'[r] = heap[r]

\* the callback a cycle calls is the one registered at the time of the call
C21_LatestCallback ==
    \A c \in DOMAIN cycles :
        Len(After(c).calls) > Len(cycles[c].calls) =>
            /\ Len(After(c).cbs) = Len(After(c).calls)
            /\ After(c).cbs[Len(After(c).cbs)] = onTriggerFire
            /\ onTriggerFire # NoCallback

\* C21: with no callback registered checkAndFire marks every due cron
\* trigger and the one selected due idle trigger as fired and returns
\* them; the scheduler holds one callback, and after a later onFire only
\* the latest callback is called.
C21_NoCallbackMarksFired ==
    [][C21_DryRun /\ C21_LatestCallback]_vars

C21_Witness ==
    /\ returned.pc = "done"
    /\ returned.calls = <<>>
    /\ onTriggerFire = NoCallback
    /\ Len(returned.fired) = 2
    /\ heap[returned.fired[1]].config.type = "cron"
    /\ heap[returned.fired[1]].nextRun = clock + 1
    /\ heap[returned.fired[2]].config.type = "idle"
    /\ heap[returned.fired[2]].lastRun = clock

\* ----------------------------------------------------------------- C22
\* the live interval timers are the one this.checkInterval names, or none
C22_OneTimer ==
    /\ Cardinality(timers) <= 1
    /\ timers = IF checkInterval = NoRef THEN {} ELSE {checkInterval}

\* a check cycle is begun by the timer only while a timer is active
C22_TimerBeginsWhileStarted ==
    LET began == \/ \E c \in DOMAIN cycles :
                       /\ cycles[c].pc = "free"
                       /\ cycles'[c].pc # "free"
                       /\ cycles'[c].origin = "timer"
                 \/ /\ returned'.pc = "done"
                    /\ returned'.origin = "timer"
                    /\ \A c \in DOMAIN cycles : cycles'[c].pc = cycles[c].pc
    IN began => /\ checkInterval # NoRef
                /\ timers = {checkInterval}

\* C22: after any sequence of start and stop at most one timer loop is
\* active: start stops the timer of a running loop first, stop leaves no
\* timer, and the timer begins no check cycle between a stop and the next
\* start.
C22_AtMostOneLoop ==
    []C22_OneTimer /\ [][C22_TimerBeginsWhileStarted]_vars

C22_Witness ==
    /\ checkInterval = NoRef
    /\ timers = {}
    /\ \E c \in DOMAIN cycles : InFlight(cycles[c]) /\ cycles[c].origin = "timer"

\* ----------------------------------------------------------------- C23
\* call c meets an error in this step: its callback rejects, or the mkdir
\* or the writeFile of its save() fails
C23_Fails(c) ==
    \/ After(c).threw # cycles[c].threw
    \/ cycles[c].pc = "mkdir" /\ cycles'[c].pc = "free"
    \/ cycles[c].pc = "write" /\ cycles'[c].pc = "free" /\ disk' # cycles[c].buf

\* the error is caught: the call does not reject and the timer stays as it is
C23_ErrorIsCaught ==
    \A c \in DOMAIN cycles :
        C23_Fails(c) =>
            /\ ~After(c).rejected
            /\ checkInterval' = checkInterval
            /\ timers' = timers

\* while the timer is active a tick begins a check cycle
C23_TickBegins ==
    (timers # {} /\ \E c \in DOMAIN cycles : cycles[c].pc = "free") =>
        ENABLED TimerFire

\* C23: an error inside one check cycle of the timer loop, a failing write
\* of the triggers file included, is caught: the timer is still active
\* after the cycle and later ticks still call checkAndFire.
C23_LoopSurvivesErrors ==
    []C23_TickBegins /\ [][C23_ErrorIsCaught]_vars

C23_Witness ==
    /\ returned.pc = "done"
    /\ returned.origin = "timer"
    /\ Len(returned.fired) > 0
    /\ disk = <<>>
    /\ checkInterval # NoRef
    /\ timers = {checkInterval}
    /\ ENABLED TimerFire

\* ----------------------------------------------------------------- C24
\* the nodes of a request typed as trigger, by type or by data.nodeType
C24_TriggerTyped(req) ==
    {req.nodes[k].id : k \in {j \in DOMAIN req.nodes :
                                 \/ req.nodes[j].type = "trigger"
                                 \/ req.nodes[j].nodeType = "trigger"}}

\* the nodes of a request with no incoming edge
C24_Sources(req) ==
    {req.nodes[k].id : k \in DOMAIN req.nodes} \
        {req.edges[k].target : k \in DOMAIN req.edges}

\* the start set the rule gives
C24_StartSet(req) ==
    IF req.startNodeId # "" THEN {req.startNodeId}
    ELSE IF C24_TriggerTyped(req) # {} THEN C24_TriggerTyped(req)
    ELSE C24_Sources(req)

\* C24: the start set of a run is the given startNodeId alone; without
\* one, all trigger-typed nodes (type or data.nodeType) if there are any;
\* otherwise every node with no incoming edge. A source that is not a
\* trigger is no start node when a trigger-typed node exists.
C24_StartNodes ==
    [][(run.pc = "received" /\ run'.pc = "executing") =>
          /\ Len(run'.executionOrder) = 1
          /\ {run'.executionOrder[1]} \cup Range(run'.queue) = C24_StartSet(request)
          /\ run'.visited = {run'.executionOrder[1]}]_vars

\* the run has begun at a data.nodeType trigger alone, and a shell node
\* with no incoming edge is not among the start nodes
C24_Witness ==
    /\ run.pc = "executing"
    /\ Len(run.executionOrder) = 1
    /\ request.startNodeId = ""
    /\ run.executionOrder = <<"b">>
    /\ run.queue = <<>>
    /\ request.nodes = <<ShellA, DataTrigger>>
    /\ "a" \in C24_Sources(request)

\* ----------------------------------------------------------------- C25
\* the label of a node: data.label, or the id of a node without one
C25_Label(node) == IF node.label # "" THEN node.label ELSE node.id

\* the texts a template atom may be replaced by, given the outputs
\* stored so far in the run
C25_Replacements(atom, nodes, outputs) ==
    LET identifier == TemplateIdentifier(atom)
        byLabel == {k \in DOMAIN nodes :
                       /\ NormalizedLabel(C25_Label(nodes[k])) = ToLowerCase(identifier)
                       /\ nodes[k].id \in DOMAIN outputs}
    IN IF identifier = "" THEN {<<atom>>}
       ELSE IF identifier \in DOMAIN outputs THEN {outputs[identifier]}
       ELSE IF byLabel # {} THEN {outputs[nodes[k].id] : k \in byLabel}
       ELSE {<<atom>>}

RECURSIVE C25_Expansions(_, _, _)
\* the texts a text may become
C25_Expansions(text, nodes, outputs) ==
    IF text = <<>> THEN {<<>>}
    ELSE {r \o rest : r \in C25_Replacements(Head(text), nodes, outputs),
                      rest \in C25_Expansions(Tail(text), nodes, outputs)}

C25_WitnessLabel ==
    /\ run.pc = "executing"
    /\ run.executionOrder[Len(run.executionOrder)] = "b"
    /\ "a" \in DOMAIN run.outputs
    /\ run.processedNode.prompt = run.outputs["a"]
    /\ run.processedNode.commands[1] = <<"use", " ">> \o run.outputs["a"]
    /\ run.processedNode.commands[3] =
           <<"say", " ">> \o run.outputs["a"] \o <<"{{x.output}}">>

\* ----------------------------------------------------------------- C26
\* results follows executionOrder entry by entry, up to length n
C26_SameNodes(results, executionOrder, n) ==
    /\ Len(results) = n
    /\ \A i \in 1 .. n : results[i].nodeId = executionOrder[i]
    /\ \A i \in 1 .. n : results[i].status \in {"completed", "failed"}

\* C26: in every run results matches executionOrder: the two have equal
\* length, results[i].nodeId = executionOrder[i] for every i, every status
\* is completed or failed, and success is true exactly when no result is
\* failed. While a node executes, results holds the nodes before it.
C26_ResultsMatchOrder ==
    /\ run.pc = "executing" =>
          C26_SameNodes(run.results, run.executionOrder,
                        Len(run.executionOrder) - 1)
    /\ (run.pc = "sent" /\ run.res.status = 200) =>
          /\ C26_SameNodes(run.res.results, run.res.executionOrder,
                           Len(run.res.executionOrder))
          /\ run.res.success <=>
                \A i \in DOMAIN run.res.results :
                    run.res.results[i].status # "failed"

\* a run of three nodes is answered: two completed, the last one failed
C26_Witness ==
    /\ run.pc = "sent"
    /\ run.res.status = 200
    /\ Len(run.res.executionOrder) = 3
    /\ Len(run.res.results) = 3
    /\ run.res.results[2].status = "completed"
    /\ run.res.results[3].status = "failed"
    /\ ~run.res.success

\* ----------------------------------------------------------------- C27
\* the trigger objects whose cron expression does not parse
C27_Invalid(h) ==
    {r \in DOMAIN h : h[r].config.type = "cron" /\ CronPeriod(h[r].config.cron) = 0}

\* register with such an expression stores and returns an enabled trigger
\* without nextRun
C27_RegisterReturns ==
    (last'.op = "register" /\ CronPeriod(last'.args[3].cron) = 0) =>
        LET t == last'.args[1]
            id == GetTriggerKey(t[1], t[2], t[3])
        IN /\ MapGet(triggers', id) = last'.ret
           /\ last'.ret \in C27_Invalid(heap')
           /\ heap'[last'.ret].enabled
           /\ heap'[last'.ret].nextRun = None
           /\ heap'[last'.ret].lastRun =
                  IF MapGet(triggers, id) # NoRef THEN heap[MapGet(triggers, id)].lastRun
                  ELSE None

\* such a trigger is never due: it has no nextRun, getDueTriggers does not
\* list it and no checkAndFire call holds it as due, called or fired
C27_NeverDue ==
    \A r \in C27_Invalid(heap) :
        /\ heap[r].nextRun = None
        /\ r \notin Range(GetDueTriggers(triggers, heap, clock))
        /\ \A c \in DOMAIN cycles :
              r \notin Range(cycles[c].due) \cup Range(cycles[c].calls)
                           \cup Range(cycles[c].fired)
        /\ r \notin Range(returned.due) \cup Range(returned.calls)
                        \cup Range(returned.fired)

\* and never fired: while it is registered its lastRun stays what register
\* took over from the registration before
C27_NeverFired ==
    \A r \in C27_Invalid(heap) :
        (last'.op # "register" /\ r \in DOMAIN heap') =>
            /\ heap'[r].lastRun = heap[r].lastRun
            /\ heap'[r].nextRun = None

\* C27: register with a cron expression that does not parse does not
\* fail: it stores and returns an enabled trigger with no nextRun, and
\* that trigger is never due and never fired, at any clock value, until
\* it is registered again with an expression that parses.
C27_InvalidCronIsInert ==
    []C27_NeverDue /\ [][C27_RegisterReturns /\ C27_NeverFired]_vars

\* a check cycle at a later minute fired the valid trigger and returned,
\* with the invalid one registered and enabled all along
C27_Witness ==
    /\ returned.pc = "done"
    /\ Len(returned.fired) = 1
    /\ clock > 0
    /\ \E r \in C27_Invalid(heap) \cap MapRefs(triggers) :
          /\ heap[r].enabled
          /\ heap[r].lastRun = None
          /\ returned.fired[1] \in MapRefs(triggers) \ {r}

\* ----------------------------------------------------------------- C28
\* the text of a date and the date of a text give the date back
C28_DatesRestored ==
    \A r \in DOMAIN heap :
        LoadTrigger(TriggerToJSON(heap[r])) = heap[r]

\* without a triggers file nothing is read or written
C28_NoFileNoIO ==
    triggersFile = NoFile =>
        /\ disk = <<>>
        /\ \A c \in DOMAIN cycles : cycles[c].pc \notin {"mkdir", "write", "read"}

\* a load returns in this step
C28_LoadReturns == returned'.pc = "done" /\ returned'.origin = "load"

\* load() does not raise; without a triggers file it changes nothing; into
\* an empty manager it brings nothing when the file is missing, and else
\* the registry whose text save() wrote to the file
C28_LoadStep ==
    C28_LoadReturns =>
        /\ ~returned'.rejected
        /\ triggersFile = NoFile => triggers' = triggers /\ heap' = heap
        /\ (triggers = <<>> /\ disk = <<>>) => triggers' = <<>>
        /\ (triggers = <<>> /\ triggers' # <<>>) =>
              /\ last.op = "save"
              /\ <<Snapshot(triggers', heap')>> = last.ret

\* C28: persistence round-trips: after save, load into an empty manager
\* on the same file gives the same keys with the same enabled, config,
\* nextRun and lastRun, the dates restored; load of a missing file leaves
\* the registry empty and does not raise; without a triggers file save
\* and load do nothing.
C28_SaveLoadRoundTrip ==
    [](C28_DatesRestored /\ C28_NoFileNoIO) /\ [][C28_LoadStep]_vars

\* a new manager has loaded two triggers: a fired cron trigger with its
\* nextRun and lastRun, and a disabled idle trigger
C28_Witness ==
    /\ returned.pc = "done"
    /\ returned.origin = "load"
    /\ last.op = "save"
    /\ <<Snapshot(triggers, heap)>> = last.ret
    /\ Len(triggers) = 2
    /\ \E r \in MapRefs(triggers) :
          /\ heap[r].config.type = "cron"
          /\ heap[r].lastRun # None
          /\ heap[r].nextRun = heap[r].lastRun + 1
    /\ \E r \in MapRefs(triggers) :
          heap[r].config.type = "idle" /\ ~heap[r].enabled

\* a manager without a triggers file has fired, and its load has returned
C28_WitnessNoFile ==
    /\ triggersFile = NoFile
    /\ returned.pc = "done"
    /\ returned.origin = "load"
    /\ \E r \in MapRefs(triggers) : heap[r].lastRun # None

\* ----------------------------------------------------------------- C29
\* the outputs of the context that nodes of this run have produced
C29_OwnOutputs(st) ==
    [id \in DOMAIN st.outputs \cap Executed(st) |-> st.outputs[id]]

\* the context holds the outputs of this run only, and the templates of
\* the node about to run resolve to those only
C29_ContextOfThisRun ==
    run.pc \in {"executing", "sent"} =>
        /\ DOMAIN run.outputs \subseteq Executed(run)
        /\ run.pc = "executing" =>
              LET nodes == request.nodes
                  node == NodeMapGet(nodes, run.executionOrder[Len(run.executionOrder)])
                  own == C29_OwnOutputs(run)
              IN /\ \A k \in DOMAIN node.commands :
                        run.processedNode.commands[k] \in
                            C25_Expansions(node.commands[k], nodes, own)
                 /\ run.processedNode.prompt \in
                        C25_Expansions(node.prompt, nodes, own)
                 /\ run.processedNode.path \in C25_Expansions(node.path, nodes, own)

\* two responses agree on the outcome of every node both have run
C29_SameOutcomes(res1, res2) ==
    \A j \in DOMAIN res1.results, k \in DOMAIN res2.results :
        res1.results[j].nodeId = res2.results[k].nodeId =>
            res1.results[j].status = res2.results[k].status

\* the second run of a request gives what the first gave
C29_SameRunSameAnswer ==
    (/\ last.op = "run"
     /\ run.pc = "sent"
     /\ request = last.args
     /\ C29_SameOutcomes(last.ret, run.res)) =>
        /\ run.res.status = last.ret.status
        /\ run.res.executionOrder = last.ret.executionOrder
        /\ run.res.success = last.ret.success

\* C29: the executor carries no state between runs: the output context
\* is empty when a run starts, a template of the second run never
\* resolves to an output of the first, and two runs on the same graph
\* with the same node outcomes give the same executionOrder and success.
C29_StatelessBetweenRuns ==
    /\ C29_ContextOfThisRun
    /\ C29_SameRunSameAnswer

\* the first run ran b and then a; the second starts at a, and
\* {{b.output}} in the path of a stays as it is
C29_Witness ==
    /\ last.op = "run"
    /\ Len(last.ret.executionOrder) >= 2
    /\ last.ret.executionOrder[1] = "b"
    /\ last.ret.executionOrder[2] = "a"
    /\ last.ret.results[1].status = "completed"
    /\ request.startNodeId = "a"
    /\ run.pc = "executing"
    /\ run.processedNode.id = "a"
    /\ run.outputs = <<>>
    /\ run.processedNode.path = <<"{{b.output}}">>

\* the second run of a request has ended as the first: three nodes, the
\* last one failed
C29_WitnessSame ==
    /\ last.op = "run"
    /\ run.pc = "sent"
    /\ request = last.args
    /\ run.res = last.ret
    /\ Len(run.res.executionOrder) = 3
    /\ ~run.res.success

\* ----------------------------------------------------------------- C30
\* no entry of a sequence occurs twice
C30_NoDuplicate(seq) ==
    \A i, j \in DOMAIN seq : seq[i] = seq[j] => i = j

\* C30: in one run every node executes at most once: executionOrder holds
\* no node id twice, also when two predecessors push a node to the queue
\* before it is taken off, and when a start node is a successor as well.
C30_AtMostOnce ==
    /\ C30_NoDuplicate(run.executionOrder)
    /\ C30_NoDuplicate([k \in DOMAIN run.results |-> run.results[k].nodeId])
    /\ run.pc = "sent" => C30_NoDuplicate(run.res.executionOrder)

\* t has pushed a and b, a has pushed b again: b runs, and is still queued
C30_Witness ==
    /\ run.pc = "executing"
    /\ run.executionOrder = <<"t", "a", "b">>
    /\ run.queue = <<"b">>
    /\ request.startNodeId = ""

\* the run began at trigger b, which is a successor of a as well, and has
\* ended with b run once
C30_WitnessStart ==
    /\ run.pc = "sent"
    /\ request.nodes = <<ShellA, DataTrigger>>
    /\ request.startNodeId = ""
    /\ \E k \in DOMAIN request.edges :
          request.edges[k] = [source |-> "a", target |-> "b"]
    /\ run.res.executionOrder = <<"b", "a">>
    /\ run.res.success

\* ----------------------------------------------------------------- C31
\* the ids of the nodes of a request
C31_Ids(req) == {req.nodes[k].id : k \in DOMAIN req.nodes}

\* the edges of a request between nodes of the request
C31_Edges(req) ==
    SelectSeq(req.edges, LAMBDA e : e.source \in C31_Ids(req) /\ e.target \in C31_Ids(req))

\* the nodes the run of a request starts at
C31_Starts(req) ==
    IF req.startNodeId # "" THEN {req.startNodeId} \cap C31_Ids(req)
    ELSE Range(FindTriggerNodes(req.nodes, req.edges))

\* the nodes the start set leads to along the edges
C31_Reachable(req) == ReachableFrom(C31_Edges(req), C31_Starts(req))

\* a cycle can be reached from the start set
C31_HasCycle(req) ==
    \E n \in C31_Reachable(req) :
        n \in ReachableFrom(C31_Edges(req), Successors(C31_Edges(req), {n}))

\* the loop is bounded: it executes at most |nodes| nodes and holds at
\* most one queue entry per start node and edge; a run over a cycle is
\* answered without an error and, when no node failed, with success and
\* every reachable node executed
C31_Bounded ==
    /\ Len(run.executionOrder) <= Cardinality(C31_Ids(request))
    /\ Len(run.queue) + Len(run.executionOrder)
           <= Len(request.nodes) + Len(request.edges)
    /\ (run.pc = "sent" /\ C31_Starts(request) # {} /\ C31_HasCycle(request)) =>
          /\ run.res.status = 200
          /\ (\A k \in DOMAIN run.res.results :
                 run.res.results[k].status = "completed") =>
                /\ run.res.success
                /\ Range(run.res.executionOrder) = C31_Reachable(request)
                /\ Len(run.res.executionOrder) = Cardinality(C31_Reachable(request))

\* C31: a run ends for every finite graph, cycles included, when every
\* node's execution ends: the loop is bounded by the nodes and edges,
\* executes at most |nodes| nodes, and on a cycle it answers without an
\* error, with success and each reachable node executed once when no
\* node failed.
C31_RunTerminates ==
    []C31_Bounded /\ <>(run.pc = "sent")

\* the run from a over the cycle a -> b -> a has ended with success
C31_Witness ==
    /\ run.pc = "sent"
    /\ C31_HasCycle(request)
    /\ run.res.status = 200
    /\ run.res.success
    /\ run.res.executionOrder = <<"a", "b">>
    /\ \E j, k \in DOMAIN request.edges :
          /\ request.edges[j] = [source |-> "a", target |-> "b"]
          /\ request.edges[k] = [source |-> "b", target |-> "a"]

\* ----------------------------------------------------------------- C32
\* the places, in the order of nodes, of the nodes whose normalized label
\* is the identifier
C32_Matching(nodes, identifier) ==
    {k \in DOMAIN nodes :
        NormalizedLabel(C25_Label(nodes[k])) = ToLowerCase(identifier)}

\* what a label-based template becomes: the output of the first of the
\* candidates, or the template itself when there is none or it has no output
C32_ByLabel(atom, nodes, outputs, candidates) ==
    IF candidates = {} THEN <<atom>>
    ELSE LET first == CHOOSE k \in candidates : \A j \in candidates : k <= j
         IN IF nodes[first].id \in DOMAIN outputs
            THEN outputs[nodes[first].id]
            ELSE <<atom>>

RECURSIVE C32_Resolved(_, _, _, _)
\* a text with its templates resolved; withOutput says whether the nodes
\* without output are passed over in the search of the label
C32_Resolved(text, nodes, outputs, withOutput) ==
    IF text = <<>> THEN <<>>
    ELSE LET atom == Head(text)
             identifier == TemplateIdentifier(atom)
             matching == C32_Matching(nodes, identifier)
             candidates == IF withOutput
                           THEN {k \in matching : nodes[k].id \in DOMAIN outputs}
                           ELSE matching
             replaced == IF identifier = "" THEN <<atom>>
                         ELSE IF identifier \in DOMAIN outputs
                         THEN outputs[identifier]
                         ELSE C32_ByLabel(atom, nodes, outputs, candidates)
         IN replaced \o C32_Resolved(Tail(text), nodes, outputs, withOutput)

\* the node about to run has its templates resolved that way
C32_Processed(withOutput) ==
    run.pc = "executing" =>
        LET nodes == request.nodes
            node == NodeMapGet(nodes, run.executionOrder[Len(run.executionOrder)])
        IN /\ \A k \in DOMAIN node.commands :
                 run.processedNode.commands[k] =
                     C32_Resolved(node.commands[k], nodes, run.outputs, withOutput)
           /\ run.processedNode.prompt =
                  C32_Resolved(node.prompt, nodes, run.outputs, withOutput)
           /\ run.processedNode.path =
                  C32_Resolved(node.path, nodes, run.outputs, withOutput)

\* C32 as stated: of the nodes whose labels normalize to the identifier
\* the first in node order wins, whether or not it has produced output
\* while a later one has.
C32_FirstMatchWins == C32_Processed(FALSE)

\* C32: of the nodes whose labels normalize to the identifier, the first
\* in node order that has produced output in the run wins; a matching
\* node without output is passed over.
C32_FirstMatchWithOutputWins == C32_Processed(TRUE)

\* t and a both match shell_a; the run began at a, so only a has output:
\* the template of b is replaced by the output of a
C32_Witness ==
    /\ run.pc = "executing"
    /\ request.nodes = <<Twin, ShellA, ShellB>>
    /\ run.executionOrder = <<"a", "b">>
    /\ C32_Matching(request.nodes, "shell_a") = {1, 2}
    /\ DOMAIN run.outputs = {"a"}
    /\ run.processedNode.prompt = run.outputs["a"]

\* t and a both match and both have output: the output of t is taken
C32_WitnessBoth ==
    /\ run.pc = "executing"
    /\ request.nodes = <<Twin, ShellA, ShellB>>
    /\ run.executionOrder = <<"t", "a", "b">>
    /\ run.outputs["t"] # run.outputs["a"]
    /\ run.processedNode.prompt = run.outputs["t"]

\* ----------------------------------------------------------------- C33
RECURSIVE C33_Distance(_, _, _, _, _)
\* the number of edges from the nodes of layer d to node n, which they
\* lead to
C33_Distance(edges, layer, seen, n, d) ==
    IF n \in layer \/ layer = {} THEN d
    ELSE C33_Distance(edges, Successors(edges, layer) \ (seen \cup layer),
                      seen \cup layer, n, d + 1)

\* the edge distance of node n from the start set of a request
C33_FromStart(req, n) ==
    C33_Distance(C31_Edges(req), C31_Starts(req), {}, n, 0)

\* only nodes the start set leads to execute, each node in executionOrder
\* is at least as far from the start set as the one before it, and a run
\* in which no node failed has executed every node the start set leads to
C33_ReachableInOrder ==
    /\ Range(run.executionOrder) \subseteq C31_Reachable(request)
    /\ \A i, j \in DOMAIN run.executionOrder :
          i < j => C33_FromStart(request, run.executionOrder[i])
                      <= C33_FromStart(request, run.executionOrder[j])
    /\ (/\ run.pc = "sent"
        /\ C31_Starts(request) # {}
        /\ \A k \in DOMAIN run.results : run.results[k].status = "completed") =>
          /\ run.res.status = 200
          /\ run.res.success
          /\ Range(run.res.executionOrder) = C31_Reachable(request)

\* C33: in a run where no node fails the executed nodes are exactly the
\* nodes reachable from the start set along edges between nodes of the
\* request, in breadth-first order (non-decreasing edge distance from the
\* start set); a node that is not reachable, such as one upstream of
\* startNodeId, never executes, and an edge to an id that is no node is
\* skipped without failing the run.
C33_BreadthFirst ==
    /\ C33_ReachableInOrder
    /\ C30_NoDuplicate(run.executionOrder)

\* the run began at a and has ended with success: b, upstream of a, has
\* not run, and the edge of a to t, which is no node of the request, was
\* skipped
C33_Witness ==
    /\ run.pc = "sent"
    /\ run.res.success
    /\ request.nodes = <<ShellA, ShellB>>
    /\ request.startNodeId = "a"
    /\ run.res.executionOrder = <<"a">>
    /\ \E k \in DOMAIN request.edges :
          request.edges[k] = [source |-> "a", target |-> "t"]
    /\ \E k \in DOMAIN request.edges :
          request.edges[k] = [source |-> "b", target |-> "a"]

\* a run of three nodes has ended, each one edge further from the start
\* set than the one before
C33_WitnessLayers ==
    /\ run.pc = "sent"
    /\ run.res.success
    /\ Len(run.res.executionOrder) = 3
    /\ C33_FromStart(request, run.res.executionOrder[1]) = 0
    /\ C33_FromStart(request, run.res.executionOrder[2]) = 1
    /\ C33_FromStart(request, run.res.executionOrder[3]) = 2

\* ---------------------------------------------------------------------
\* C34: register always stores an enabled trigger.  A register call for a
\* key whose record was disabled by setEnabled(key, false) returns a
\* record with enabled = true, and that record still carries the lastRun
\* the key had before the call.
C34_RegisterStep == last'.op = "register" /\ last' # last

C34_RegisterEnables ==
    [][C34_RegisterStep =>
          /\ MapGet(triggers', GetTriggerKey(WsA, PathB, NodeN)) = last'.ret
          /\ heap'[last'.ret].enabled = TRUE
          /\ heap'[last'.ret].lastRun = last'.before.lastRun]_vars

\* the key had been fired and then disabled, and register has returned
C34_Witness ==
    /\ last.op = "register"
    /\ last.before.registered
    /\ ~last.before.enabled
    /\ last.before.lastRun # None
    /\ heap[last.ret].enabled
    /\ heap[last.ret].lastRun = last.before.lastRun

\* ---------------------------------------------------------------------
\* C35: register recomputes nextRun of a cron trigger strictly after the
\* current clock time.  A cron trigger that was due and not yet fired is
\* not due once register has returned for its key, and the checkAndFire
\* called next, at that time, neither calls the callback for it nor fires
\* it.
C35_CronRegistered(l) == l.op = "register" /\ l.args[3].type = "cron"

C35_NotDueAfterRegister ==
    C35_CronRegistered(last') /\ last' # last =>
        /\ heap'[last'.ret].nextRun > clock'
        /\ last'.ret \notin Range(GetDueTriggers(triggers', heap', clock'))

C35_NextCycleSkips ==
    \A c \in DOMAIN cycles :
        (/\ C35_CronRegistered(last)
         /\ last'.op = "checkAndFire"
         /\ cycles[c].pc = "free") =>
            /\ last.ret \notin Range(After(c).due) \cup Range(After(c).calls)
                                 \cup Range(After(c).fired)
            /\ heap'[last.ret].lastRun = heap[last.ret].lastRun
            /\ heap'[last.ret].nextRun = heap[last.ret].nextRun

C35_RegisterClearsDue == [][C35_NotDueAfterRegister /\ C35_NextCycleSkips]_vars

\* register has returned for a key whose cron record was enabled, due and
\* never fired
C35_Witness ==
    /\ C35_CronRegistered(last)
    /\ last.before.registered
    /\ last.before.enabled
    /\ last.before.nextRun # None
    /\ last.before.nextRun <= clock
    /\ last.before.lastRun = None
    /\ heap[last.ret].nextRun > clock

\* and the checkAndFire called after that register has returned without
\* firing it
C35_WitnessCycle ==
    /\ last.op = "checkAndFire"
    /\ C35_CronRegistered(last.prev)
    /\ last.prev.before.enabled
    /\ last.prev.before.nextRun # None
    /\ last.prev.before.nextRun <= clock
    /\ last.prev.before.lastRun = None
    /\ onTriggerFire # NoCallback
    /\ returned.pc = "done"
    /\ returned.fired = <<>>
    /\ heap[last.prev.ret].lastRun = None

\* ---------------------------------------------------------------------
\* C36: missed cron occurrences collapse into one fire.  A check cycle
\* that finds k >= 1 occurrences of a cron trigger passed calls the
\* callback for it once and fires it once; markFired then sets nextRun to
\* the first occurrence strictly after the clock time, so the trigger is
\* not due when the cycle has returned and none of the other k - 1
\* occurrences is fired.
C36_Count(seq, r) == Cardinality({k \in DOMAIN seq : seq[k] = r})

C36_FiresIn(c) == Len(After(c).fired) > Len(cycles[c].fired)

C36_OneFire ==
    \A c \in DOMAIN cycles :
        C36_FiresIn(c) =>
            \A r \in Range(After(c).fired) :
                /\ C36_Count(After(c).fired, r) = 1
                /\ C36_Count(After(c).calls, r) = (IF After(c).cbs = <<>> THEN 0 ELSE 1)
                /\ r \in cycles[c].cronAtStart \cup After(c).cronAtStart
                /\ heap'[r].lastRun = clock
                /\ heap'[r].nextRun = NextOccurrence(CronPeriod(heap[r].config.cron), clock)
                /\ heap'[r].nextRun > clock'

C36_NoCatchUp ==
    returned.pc = "done" =>
        \A r \in Range(returned.fired) :
            /\ heap[r].nextRun > clock
            /\ r \notin Range(GetDueTriggers(triggers, heap, clock))

C36_MissedCollapse == []C36_NoCatchUp /\ [][C36_OneFire]_vars

\* three or more occurrences had passed when the callback was called; the
\* cycle has returned with the one fire
C36_Witness ==
    /\ last.op = "resume"
    /\ last.before.enabled
    /\ last.before.nextRun # None
    /\ last.before.nextRun + 2 * CronPeriod(heap[returned.fired[1]].config.cron) <= clock
    /\ returned.pc = "done"
    /\ Len(returned.fired) = 1
    /\ returned.calls = returned.fired
    /\ heap[returned.fired[1]].nextRun = clock + 1

\* ---------------------------------------------------------------------
\* C37: firing an idle trigger makes neither it nor another idle trigger
\* not due.  An idle trigger that is due stays due through every step but
\* a setIdle(false), the firing steps of checkAndFire included, as long
\* as it stays registered and enabled with its config; and a check
\* cycle that finds idle triggers due and whose callback does not throw
\* fires exactly one of them.
C37_Due(m, h, since, now) == ClaimDueIdle(m, h, since, now)

C37_StaysDue ==
    \A r \in C37_Due(triggers, heap, idleSince, clock) :
        (/\ ~(last'.op = "setIdle" /\ last'.args = <<FALSE>>)
         /\ r \in MapRefs(triggers')
         /\ heap'[r].enabled
         /\ heap'[r].config = heap[r].config) =>
            r \in C37_Due(triggers', heap', idleSince', clock')

C37_FiresOne ==
    (returned.pc = "done" /\ returned.idleAtSel # {} /\ returned.threw = {}) =>
        /\ returned.sel \in returned.idleAtSel
        /\ C36_Count(returned.fired, returned.sel) = 1
        /\ \A r \in Range(returned.fired) : r = returned.sel \/ r \in Range(returned.due)

C37_IdleStaysDue == []C37_FiresOne /\ [][C37_StaysDue]_vars

\* trigger n, fired before in this idle period, has been fired again by a
\* cycle that found both idle triggers due; both are still due
C37_Witness ==
    /\ last.op = "resume"
    /\ idleSince # None
    /\ last.before.lastRun # None
    /\ last.before.lastRun >= idleSince
    /\ returned.pc = "done"
    /\ Cardinality(returned.idleAtSel) = 2
    /\ returned.fired = <<KeyRef(GetTriggerKey(WsA, PathB, NodeN))>>
    /\ C37_Due(triggers, heap, idleSince, clock) = returned.idleAtSel

\* ---------------------------------------------------------------------
\* C38: within one checkAndFire call all cron callbacks complete before
\* the due idle set is computed.  While the call awaits a cron callback no
\* idle trigger has been looked up or chosen; the idle triggers are looked
\* up in the step in which the last cron callback settles, with idleSince
\* as it is then, so after a setIdle(false) during a cron callback no idle
\* trigger is fired by that call; and in the returned list the cron
\* triggers come first, in the order of the due list, and the idle trigger
\* last.
C38_CronPhase(cy) ==
    cy.pc = "cron" =>
        /\ cy.sel = NoRef
        /\ cy.idleAtSel = {}
        /\ cy.calls = SubSeq(cy.due, 1, cy.i)
        /\ Range(cy.fired) \subseteq Range(cy.due)

C38_CronFirst(cy) ==
    \A k \in DOMAIN cy.fired :
        /\ cy.fired[k] = cy.sel => k = Len(cy.fired)
        /\ cy.fired[k] # cy.sel =>
              /\ cy.fired[k] \in Range(cy.due)
              /\ \A j \in 1 .. k - 1 :
                    \E a, b \in DOMAIN cy.due :
                        a < b /\ cy.due[a] = cy.fired[j] /\ cy.due[b] = cy.fired[k]

C38_Order ==
    /\ \A c \in DOMAIN cycles : C38_CronPhase(cycles[c]) /\ C38_CronFirst(cycles[c])
    /\ C38_CronFirst(returned)
    /\ returned.sel \in returned.idleAtSel \cup {NoRef}

C38_LeavesCronPhase(c) ==
    /\ cycles[c].pc \in {"free", "cron"}
    /\ After(c).pc \notin {"free", "cron"}

C38_IdleLookedUpLast ==
    \A c \in DOMAIN cycles :
        C38_LeavesCronPhase(c) =>
            /\ After(c).idleAtSel = ClaimDueIdle(triggers', heap', idleSince', clock')
            /\ idleSince = None =>
                  /\ After(c).sel = NoRef
                  /\ After(c).pc = "done"
                  /\ Range(After(c).fired) \subseteq Range(After(c).due)

C38_WitnessBoth ==
    /\ returned.pc = "done"
    /\ Len(returned.fired) = 2
    /\ returned.fired[1] = returned.due[1]
    /\ returned.fired[2] = returned.sel
    /\ returned.calls = returned.fired

\* ---------------------------------------------------------------------
\* C39: the fire callback is invoked only for a trigger that is, at the
\* moment of the invocation, present in the registry and enabled, also
\* when the key was unregistered or disabled while the callback of an
\* earlier trigger of the same cycle was awaited.
C39_Invokes(c) == Len(After(c).calls) > Len(cycles[c].calls)

C39_Invoked(c) == After(c).calls[Len(After(c).calls)]

C39_InvokedIsLive ==
    \A c \in DOMAIN cycles :
        C39_Invokes(c) =>
            /\ C39_Invoked(c) \in MapRefs(triggers')
            /\ heap'[C39_Invoked(c)].enabled

C39_CallbackOnlyForLive == [][C39_InvokedIsLive]_vars

\* ---------------------------------------------------------------------
\* C40: at any time at most one invocation of the fire callback is in
\* flight for a given trigger key, whether checkAndFire is called by the
\* timer of start(), directly, or both.
C40_Awaiting(key) ==
    {c \in DOMAIN cycles : /\ cycles[c].pc \in {"cron", "idle"}
                           /\ heap[Awaited(cycles[c])].id = key}

C40_OneInFlightPerKey ==
    \A key \in Keys : Cardinality(C40_Awaiting(key)) <= 1

====
